---- MODULE Spec2Model ----
(***************************************************************************)
(* A model of the selectable-list widget of cview (src/list.go, the first, *)
(* feature-complete variant: lines 1-1155).  The list's mutable fields are *)
(* the variables; every public operation and both event handlers are one   *)
(* action each.  An operation is an operator from a list record to a list  *)
(* record, so that a user callback invoked in the middle of an operation   *)
(* can re-enter the list (RemoveItem from a "selected" callback) exactly   *)
(* where the code invokes it.                                              *)
(***************************************************************************)
EXTENDS Integers, Sequences, FiniteSets, TLC

\* ---------------------------------------------------------------- bounds
\* Most rows a list holds in Spec.
MaxItems == 3
\* Largest |currentItem| from which a navigation command on an empty list may
\* still move the index further away (the code's counter is unbounded there).
MaxDrift == 0
\* Most rows a list holds in SpecInput.
MaxRows == 2
\* Most rows a list holds in SpecNav: more than a page.
MaxNav == 6
\* Most rows a list holds in SpecKeys.
MaxKeyRows == 3
\* Most rows a list holds in SpecAccess.
MaxAccessRows == 2
\* Most rows a list holds in SpecPick.
MaxPickRows == 3
\* Most rows a list holds in SpecFind.
MaxFindRows == 3

\* Most rows a list holds in SpecScroll, and the largest SetOffset argument
\* there.
MaxScrollRows == 2
MaxScrollOffset == 3

\* Most rows a list holds in SpecEdit.
MaxEditRows == 3

\* Most rows a list holds in SpecMenu.
MaxMenuRows == 2

\* Most rows a list holds in SpecHover.
MaxHoverRows == 2

\* Most rows a list holds in SpecOlder.
MaxOlderRows == 2

\* Most rows a list holds in SpecView, and the tallest inner rectangle the
\* Box is resized to there.
MaxViewRows == 4
MaxHeight == 5
\* Lines of the Box's inner rectangle.
ViewHeight == 10

\* ------------------------------------------------------- program constants
\* TransformPreviousPage / TransformNextPage move by five rows.
PageSize == 5

\* ---------------------------------------------------------------- state
VARIABLES
    items,                  \* l.items: sequence of rows
    currentItem,            \* l.currentItem
    offset,                 \* l.offset
    height,                 \* l.height (cached by updateOffset and Draw)
    showSecondaryText,      \* l.showSecondaryText
    selectedAlwaysVisible,  \* l.selectedAlwaysVisible
    selectedAlwaysCentered, \* l.selectedAlwaysCentered
    wrapAround,             \* l.wrapAround
    hover,                  \* l.hover
    changed,                \* l.changed: "nil" or what the subscriber does
    selected,               \* l.selected: "nil" or what the subscriber does
    done,                   \* l.done: "nil" or what the subscriber does
    menuOpen,               \* l.ContextMenu.open
    menuItems,              \* len(l.ContextMenuList().items)
    rectHeight,             \* height of the Box's inner rectangle
    mu,                     \* the embedded sync.RWMutex: "free" or "held"
    status,                 \* "ok", "deadlock" (blocked on its own lock),
                            \* "panic" (index out of range), "fatal" (unlock of
                            \* an unlocked mutex)
    events,                 \* callbacks invoked by the last operation, in order
    last                    \* the last operation and the state it started from

vars == <<items, currentItem, offset, height, showSecondaryText,
          selectedAlwaysVisible, selectedAlwaysCentered, wrapAround, hover,
          changed, selected, done, menuOpen, menuItems, rectHeight, mu, status,
          events, last>>

\* ---------------------------------------------------------------- helpers
\* The rune 0: "no shortcut".
NoShortcut == ""

\* Go's integer division truncates toward zero.
GoDiv(a, b) == IF a >= 0 THEN a \div b ELSE -((-a) \div b)

\* Rows are 0-indexed in the code; At(s, i) is s[i] of the Go slice.
At(s, i) == s[i + 1]
InRange(s, i) == 0 <= i /\ i < Len(s)

\* The list as a record: what an operation reads and writes.
ListOf(its, cur, off, h, m, st, ev, mo) ==
    [items |-> its, currentItem |-> cur, offset |-> off, height |-> h,
     mu |-> m, status |-> st, events |-> ev, menuOpen |-> mo]

\* ------------------------------------------------------------- the mutex
\* sync.RWMutex.Lock by the one thread that drives the list: taking a lock
\* this thread already holds blocks forever.
Lock(l) ==
    IF l.status # "ok" THEN l
    ELSE IF l.mu = "held" THEN [l EXCEPT !.status = "deadlock"]
    ELSE [l EXCEPT !.mu = "held"]

\* sync.RWMutex.Unlock: unlocking an unlocked mutex is a fatal error.
Unlock(l) ==
    IF l.status # "ok" THEN l
    ELSE IF l.mu = "free" THEN [l EXCEPT !.status = "fatal"]
    ELSE [l EXCEPT !.mu = "free"]

\* A slice access l.items[i]: panics when i is out of range.
Checked(l, i) ==
    IF l.status # "ok" THEN l
    ELSE IF InRange(l.items, i) THEN l
    ELSE [l EXCEPT !.status = "panic"]

\* ------------------------------------------------------------- callbacks
\* What a callback invocation looks like from outside: the operation that
\* makes the call, which callback, what the callback goes on to do, its
\* arguments, and the list as the callback finds it.
Event(l, site, cb, does, index, main, secondary, shortcut) ==
    [site |-> site, cb |-> cb, does |-> does, index |-> index, main |-> main,
     secondary |-> secondary, shortcut |-> shortcut, mu |-> l.mu,
     currentItem |-> l.currentItem, offset |-> l.offset,
     len |-> Len(l.items)]

Record(l, e) == [l EXCEPT !.events = Append(l.events, e)]

\* l.changed(index, mainText, secondaryText, shortcut); the caller has
\* checked l.changed != nil.  The subscriber only observes.
CallChanged(l, site, index, item) ==
    IF l.status # "ok" THEN l
    ELSE Record(l, Event(l, site, "changed", changed, index, item.MainText,
                         item.SecondaryText, item.Shortcut))

\* A done call that reaches the subscriber twice.
CallDone_Twice(l) ==
    IF l.status # "ok" THEN l
    ELSE LET e == Event(l, "InputHandler", "done", done, -1, "", "", NoShortcut)
         IN  Record(Record(l, e), e)

\* l.done()
CallDone(l) ==
    IF l.status # "ok" THEN l
    ELSE Record(l, Event(l, "InputHandler", "done", done, -1, "", "", NoShortcut))

\* ------------------------------------------------------- viewport offset
\* An updateOffset that does not clamp the offset to the end of the list.
updateOffset_NoClamp(l) ==
    LET hgt == rectHeight
        h   == IF selectedAlwaysCentered THEN GoDiv(hgt, 2) ELSE hgt
        o1  == IF l.currentItem < l.offset THEN l.currentItem
               ELSE IF showSecondaryText
                    THEN IF 2 * (l.currentItem - l.offset) >= h - 1
                         THEN GoDiv(2 * l.currentItem + 3 - h, 2)
                         ELSE l.offset
                    ELSE IF l.currentItem - l.offset >= h
                         THEN l.currentItem + 1 - h
                         ELSE l.offset
        o3  == IF o1 < 0 THEN 0 ELSE o1
    IN  [l EXCEPT !.height = hgt, !.offset = o3]

\* updateOffset, with GetInnerRect's height read from the Box.
updateOffset(l) ==
    LET hgt == rectHeight
        h   == IF selectedAlwaysCentered THEN GoDiv(hgt, 2) ELSE hgt
        o1  == IF l.currentItem < l.offset THEN l.currentItem
               ELSE IF showSecondaryText
                    THEN IF 2 * (l.currentItem - l.offset) >= h - 1
                         THEN GoDiv(2 * l.currentItem + 3 - h, 2)
                         ELSE l.offset
                    ELSE IF l.currentItem - l.offset >= h
                         THEN l.currentItem + 1 - h
                         ELSE l.offset
        cap == IF showSecondaryText THEN Len(l.items) - GoDiv(hgt, 2)
               ELSE Len(l.items) - hgt
        o2  == IF o1 > cap THEN cap ELSE o1
        o3  == IF o2 < 0 THEN 0 ELSE o2
    IN  [l EXCEPT !.height = hgt, !.offset = o3]

\* The part of Draw that changes the list: the height is cached and, under
\* a visibility policy, the offset recomputed; the deferred Unlock follows.
Draw(l0) ==
    LET l1 == Lock(l0)
    IN  IF l1.status # "ok" THEN l1
        ELSE LET l2 == [l1 EXCEPT !.height = rectHeight]
             IN  Unlock(IF selectedAlwaysVisible \/ selectedAlwaysCentered
                        THEN updateOffset(l2) ELSE l2)

\* ------------------------------------------------------------- item store
\* An index adjustment that does not count negative indices from the back.
ClampIndex_NotFromBack(index, n) ==
    IF index < 0 THEN 0 ELSE IF index >= n THEN n - 1 ELSE index

\* The index adjustment shared by SetCurrentItem and RemoveItem: negative
\* indices count from the back, out of range indices are clamped.
ClampIndex(index, n) ==
    LET i1 == IF index < 0 THEN n + index ELSE index
        i2 == IF i1 >= n THEN n - 1 ELSE i1
    IN  IF i2 < 0 THEN 0 ELSE i2

\* An index shift that counts a negative index from the last row, as
\* RemoveItem does, so that -1 inserts before the last row.
InsertIndex_FromLastRow(index, n) ==
    LET i1 == IF index < 0 THEN n + index ELSE index
    IN  IF i1 < 0 THEN 0 ELSE IF i1 > n THEN n ELSE i1

\* InsertItem's "shift index to range".
InsertIndex(index, n) ==
    LET i1 == IF index < 0 THEN n + index + 1 ELSE index
    IN  IF i1 < 0 THEN 0 ELSE IF i1 > n THEN n ELSE i1

\* A removal that keeps the rows above the index only.
RemoveAt_DropsRest(s, index) == SubSeq(s, 1, index)

\* append(l.items[:index], l.items[index+1:]...)
RemoveAt(s, index) ==
    SubSeq(s, 1, index) \o SubSeq(s, index + 2, Len(s))

\* append(l.items, nil); copy(l.items[index+1:], l.items[index:]);
\* l.items[index] = item
InsertAt(s, index, item) ==
    SubSeq(s, 1, index) \o <<item>> \o SubSeq(s, index + 1, Len(s))

\* A RemoveItem that shifts the selection only for a row removed above it,
\* keeping the number when the current row itself goes.
ShiftOnRemove_OnlyAbove(cur, index) ==
    IF cur > index THEN cur - 1 ELSE cur

\* RemoveItem's "shift current item", index being the removed position.
ShiftOnRemove(cur, index) ==
    IF cur >= index /\ cur > 0 THEN cur - 1 ELSE cur

\* InsertItem's "shift current item", n being the length before the insert.
ShiftOnInsert(cur, index, n) ==
    IF cur < n /\ cur >= index THEN cur + 1 ELSE cur

\* The tail of RemoveItem: fire "changed" when the removed row was the
\* current one, with the lock released first.
RemoveItemFire(l, previousItem, index) ==
    IF previousItem = index /\ changed # "nil"
    THEN LET l1 == Checked(l, l.currentItem)
         IN  IF l1.status # "ok" THEN l1
             ELSE CallChanged(Unlock(l1), "RemoveItem", l1.currentItem,
                              At(l1.items, l1.currentItem))
    ELSE Unlock(l)

RemoveItem(l0, index) ==
    LET l1 == Lock(l0)
    IN  IF l1.status # "ok" THEN l1
        ELSE IF Len(l1.items) = 0 THEN Unlock(l1)
        ELSE LET idx == ClampIndex(index, Len(l1.items))
                 l2  == [l1 EXCEPT !.items = RemoveAt(l1.items, idx)]
             IN  IF Len(l2.items) = 0 THEN Unlock(l2)
                 ELSE LET previousItem == l2.currentItem
                          l3 == [l2 EXCEPT !.currentItem =
                                    ShiftOnRemove(l2.currentItem, idx)]
                      IN  RemoveItemFire(l3, previousItem, idx)

\* An InsertItem that calls "changed" before releasing the lock.
InsertItemFire_Locked(l) ==
    IF Len(l.items) = 1 /\ changed # "nil"
    THEN Unlock(CallChanged(l, "InsertItem", 0, At(l.items, 0)))
    ELSE Unlock(l)

\* The tail of InsertItem: fire "changed" for the first row of the list.
InsertItemFire(l) ==
    IF Len(l.items) = 1 /\ changed # "nil"
    THEN CallChanged(Unlock(l), "InsertItem", 0, At(l.items, 0))
    ELSE Unlock(l)

\* A new row is enabled; row.Selected is "nil" or what its callback does.
InsertItem(l0, index, row) ==
    LET l1 == Lock(l0)
    IN  IF l1.status # "ok" THEN l1
        ELSE LET item == [Enabled |-> TRUE, MainText |-> row.MainText,
                          SecondaryText |-> row.SecondaryText,
                          Shortcut |-> row.Shortcut, Selected |-> row.Selected,
                          mark |-> FALSE]
                 n    == Len(l1.items)
                 idx  == InsertIndex(index, n)
                 l2   == [l1 EXCEPT
                            !.currentItem = ShiftOnInsert(l1.currentItem, idx, n),
                            !.items = InsertAt(l1.items, idx, item)]
             IN  InsertItemFire(l2)

\* The tail of SetCurrentItem: fire "changed" if the selection changed.
SetCurrentItemFire(l, index, previousItem) ==
    IF index # previousItem /\ changed # "nil"
    THEN LET l1 == Checked(l, index)
         IN  IF l1.status # "ok" THEN l1
             ELSE Lock(CallChanged(Unlock(l1), "SetCurrentItem", index,
                                   At(l1.items, index)))
    ELSE l

SetCurrentItem(l0, index) ==
    LET l1 == Lock(l0)
    IN  IF l1.status # "ok" THEN l1
        ELSE LET idx == ClampIndex(index, Len(l1.items))
                 previousItem == l1.currentItem
                 l2 == updateOffset([l1 EXCEPT !.currentItem = idx])
             IN  Unlock(SetCurrentItemFire(l2, idx, previousItem))

\* GetCurrentItem: a read under the shared lock.
GetCurrentItem(l) == Unlock(Lock(l))

Clear(l0) ==
    LET l1 == Lock(l0)
    IN  IF l1.status # "ok" THEN l1
        ELSE Unlock([l1 EXCEPT !.items = <<>>, !.currentItem = 0, !.offset = 0])

\* A SetItemEnabled whose Unlock is not deferred: the panic leaves the lock
\* held.
SetItemEnabled_NoDefer(l0, index, enabled) ==
    LET l1 == Lock(l0)
    IN  IF l1.status # "ok" THEN l1
        ELSE IF ~InRange(l1.items, index)
             THEN [l1 EXCEPT !.status = "panic"]
             ELSE Unlock([l1 EXCEPT !.items[index + 1].Enabled = enabled])

\* SetItemEnabled: l.items[index] panics when index is out of range, and the
\* deferred Unlock runs while the panic unwinds.
SetItemEnabled(l0, index, enabled) ==
    LET l1 == Lock(l0)
    IN  IF l1.status # "ok" THEN l1
        ELSE IF ~InRange(l1.items, index)
             THEN [Unlock(l1) EXCEPT !.status = "panic"]
             ELSE Unlock([l1 EXCEPT !.items[index + 1].Enabled = enabled])

\* GetItemText: a read under the shared lock, released by a deferred
\* RUnlock; l.items[index] panics when index is out of range.
GetItemText(l0, index) ==
    LET l1 == Lock(l0)
    IN  IF l1.status # "ok" THEN l1
        ELSE IF ~InRange(l1.items, index)
             THEN [Unlock(l1) EXCEPT !.status = "panic"]
             ELSE Unlock(l1)

\* SetItemText, with a deferred Unlock like SetItemEnabled.
SetItemText(l0, index, main, secondary) ==
    LET l1 == Lock(l0)
    IN  IF l1.status # "ok" THEN l1
        ELSE IF ~InRange(l1.items, index)
             THEN [Unlock(l1) EXCEPT !.status = "panic"]
             ELSE Unlock([l1 EXCEPT !.items[index + 1].MainText = main,
                                    !.items[index + 1].SecondaryText = secondary])

\* SetOffset: a negative offset becomes 0.
\* A SetOffset that stores its argument as given.
SetOffset_NoFloor(l0, off) ==
    LET l1 == Lock(l0)
    IN  IF l1.status # "ok" THEN l1 ELSE Unlock([l1 EXCEPT !.offset = off])

\* SetOffset: a negative argument counts as 0.

SetOffset(l0, off) ==
    LET l1 == Lock(l0)
    IN  IF l1.status # "ok" THEN l1
        ELSE Unlock([l1 EXCEPT !.offset = IF off < 0 THEN 0 ELSE off])

\* ------------------------------------------------------------------ search
\* strings.ToLower over the letters the searches use.
LowerRune(c) == IF c = "A" THEN "a" ELSE IF c = "B" THEN "b" ELSE c

RECURSIVE ToLower(_)
ToLower(s) ==
    IF Len(s) = 0 THEN ""
    ELSE LowerRune(SubSeq(s, 1, 1)) \o ToLower(SubSeq(s, 2, Len(s)))

\* strings.Contains: true for an empty substr.
Contains(s, substr) ==
    \E i \in 0..(Len(s) - Len(substr)) : SubSeq(s, i + 1, i + Len(substr)) = substr

\* Whether FindItems appends the row's index.
FindMatch(item, mainSearch, secondarySearch, mustContainBoth, ignoreCase) ==
    LET mainText      == IF ignoreCase THEN ToLower(item.MainText)
                         ELSE item.MainText
        secondaryText == IF ignoreCase THEN ToLower(item.SecondaryText)
                         ELSE item.SecondaryText
        mainContained      == Contains(mainText, mainSearch)
        secondaryContained == Contains(secondaryText, secondarySearch)
    IN  \/ mustContainBoth /\ mainContained /\ secondaryContained
        \/ /\ ~mustContainBoth
           /\ \/ mainText # "" /\ mainContained
              \/ secondaryText # "" /\ secondaryContained

\* FindItems: the indices it returns, under a read lock (nil is the empty
\* sequence).
FindItems(l, mainSearch, secondarySearch, mustContainBoth, ignoreCase) ==
    IF mainSearch = "" /\ secondarySearch = "" THEN <<>>
    ELSE LET main      == IF ignoreCase THEN ToLower(mainSearch)
                          ELSE mainSearch
             secondary == IF ignoreCase THEN ToLower(secondarySearch)
                          ELSE secondarySearch
             all       == [i \in 1..Len(l.items) |-> i - 1]
         IN  SelectSeq(all, LAMBDA index :
                 FindMatch(At(l.items, index), main, secondary,
                           mustContainBoth, ignoreCase))

\* ------------------------------------------------------ user callbacks
\* A row's own callback, item.Selected(); the caller has checked it is not
\* nil.  "remove" is a callback that removes the row it finds selected:
\* l.RemoveItem(l.GetCurrentItem()).
CallItemSelected(l, site, item) ==
    IF l.status # "ok" THEN l
    ELSE LET l1 == Record(l, Event(l, site, "item", item.Selected, -1, item.MainText,
                                   item.SecondaryText, item.Shortcut))
         IN  IF item.Selected = "remove"
             THEN LET l2 == GetCurrentItem(l1)
                  IN  RemoveItem(l2, l2.currentItem)
             ELSE l1

\* The list-wide callback, l.selected(index, ...); the caller has checked it
\* is not nil.  "remove" is a callback that removes the row it is told
\* about: l.RemoveItem(index).
CallSelected(l, site, index, item) ==
    IF l.status # "ok" THEN l
    ELSE LET l1 == Record(l, Event(l, site, "selected", selected, index, item.MainText,
                                   item.SecondaryText, item.Shortcut))
         IN  IF selected = "remove" THEN RemoveItem(l1, index) ELSE l1

\* A callback pair that keeps the lock while the callbacks run.
FireSelected_Locked(l, site, item) ==
    LET a == IF item.Selected # "nil"
             THEN CallItemSelected(l, site, item)
             ELSE l
    IN  IF selected # "nil"
        THEN CallSelected(a, site, a.currentItem, item)
        ELSE a

\* The callback pair of the select key and of a shortcut: the row's own
\* callback, then the list-wide one, each with the lock released around it.
FireSelected(l, site, item) ==
    LET a == IF item.Selected # "nil"
             THEN Lock(CallItemSelected(Unlock(l), site, item))
             ELSE l
    IN  IF selected # "nil"
        THEN Lock(CallSelected(Unlock(a), site, a.currentItem, item))
        ELSE a

\* --------------------------------------------------- selection navigator
Transformations ==
    {"TransformFirstItem", "TransformLastItem", "TransformPreviousItem",
     "TransformNextItem", "TransformPreviousPage", "TransformNextPage"}

Decreasing(tr) ==
    tr \in {"TransformFirstItem", "TransformPreviousItem", "TransformPreviousPage"}

\* The switch of transform: the raw candidate index.
Candidate(l, tr) ==
    CASE tr = "TransformFirstItem"    -> [l EXCEPT !.currentItem = 0, !.offset = 0]
      [] tr = "TransformLastItem"     -> [l EXCEPT !.currentItem = Len(l.items) - 1]
      [] tr = "TransformPreviousItem" -> [l EXCEPT !.currentItem = @ - 1]
      [] tr = "TransformNextItem"     -> [l EXCEPT !.currentItem = @ + 1]
      [] tr = "TransformPreviousPage" -> [l EXCEPT !.currentItem = @ - PageSize]
      [] tr = "TransformNextPage"     -> [l EXCEPT !.currentItem = @ + PageSize]
      [] OTHER -> l

\* A loop head that clamps whether or not wrap-around is set.
WrapOrClamp_NeverWraps(l) ==
    IF l.currentItem < 0
    THEN [l EXCEPT !.currentItem = 0, !.offset = 0]
    ELSE IF l.currentItem >= Len(l.items)
    THEN [l EXCEPT !.currentItem = Len(l.items) - 1]
    ELSE l

\* A loop head that wraps by the remainder, so that a page past the end
\* lands a page further on from the start.
WrapOrClamp_Modular(l) ==
    IF l.currentItem < 0
    THEN IF wrapAround
         THEN [l EXCEPT !.currentItem = @ % Len(l.items)]
         ELSE [l EXCEPT !.currentItem = 0, !.offset = 0]
    ELSE IF l.currentItem >= Len(l.items)
    THEN IF wrapAround
         THEN [l EXCEPT !.currentItem = @ % Len(l.items), !.offset = 0]
         ELSE [l EXCEPT !.currentItem = Len(l.items) - 1]
    ELSE l

\* The head of the loop body: wrap or clamp an index that left the range.
WrapOrClamp(l) ==
    IF l.currentItem < 0
    THEN IF wrapAround
         THEN [l EXCEPT !.currentItem = Len(l.items) - 1]
         ELSE [l EXCEPT !.currentItem = 0, !.offset = 0]
    ELSE IF l.currentItem >= Len(l.items)
    THEN IF wrapAround
         THEN [l EXCEPT !.currentItem = 0, !.offset = 0]
         ELSE [l EXCEPT !.currentItem = Len(l.items) - 1]
    ELSE l

\* A loop tail that steps forward whatever the direction of travel.
Step_AlwaysForward(cur, decreasing) == cur + 1

\* The tail of the loop body: step past a disabled row.
Step(cur, decreasing) == IF decreasing THEN cur - 1 ELSE cur + 1

\* for i := 0; i < len(l.items); i++ { ... }
RECURSIVE SkipLoop(_, _, _)
SkipLoop(l, i, decreasing) ==
    IF i >= Len(l.items) THEN l
    ELSE LET l1 == WrapOrClamp(l)
         IN  IF At(l1.items, l1.currentItem).Enabled THEN l1
             ELSE SkipLoop([l1 EXCEPT !.currentItem = Step(@, decreasing)],
                           i + 1, decreasing)

\* A loop that allows itself a second pass over the rows.
RECURSIVE SkipIterations_TwoPasses(_, _, _)
SkipIterations_TwoPasses(l, i, decreasing) ==
    IF i >= 2 * Len(l.items) THEN i
    ELSE LET l1 == WrapOrClamp(l)
         IN  IF At(l1.items, l1.currentItem).Enabled THEN i + 1
             ELSE SkipIterations_TwoPasses(
                      [l1 EXCEPT !.currentItem = Step(@, decreasing)],
                      i + 1, decreasing)

\* How many times the loop's body runs: i counts the completed rounds, and
\* the round that breaks is one more.
RECURSIVE SkipIterations(_, _, _)
SkipIterations(l, i, decreasing) ==
    IF i >= Len(l.items) THEN i
    ELSE LET l1 == WrapOrClamp(l)
         IN  IF At(l1.items, l1.currentItem).Enabled THEN i + 1
             ELSE SkipIterations([l1 EXCEPT !.currentItem = Step(@, decreasing)],
                                 i + 1, decreasing)

transform(l, tr) ==
    updateOffset(SkipLoop(Candidate(l, tr), 0, Decreasing(tr)))

Transform(l0, tr) ==
    LET l1 == Lock(l0)
    IN  IF l1.status # "ok" THEN l1 ELSE Unlock(transform(l1, tr))

\* ------------------------------------------------------------ context menu
\* ContextMenu.hide and ContextMenu.show, called once the handler has
\* released the lock.
hide(l) == IF l.status # "ok" THEN l ELSE [l EXCEPT !.menuOpen = FALSE]
show(l) == IF l.status # "ok" THEN l ELSE [l EXCEPT !.menuOpen = TRUE]

\* -------------------------------------------------------------- key input
\* A key event: the binding it hits (HitShortcut against Keys.*, "None" when
\* it hits none) and its rune ("" when it is not a KeyRune event).
NavKeys ==
    [MoveFirst |-> "TransformFirstItem", MoveLast |-> "TransformLastItem",
     MoveUp |-> "TransformPreviousItem", MoveDown |-> "TransformNextItem",
     MovePreviousPage |-> "TransformPreviousPage",
     MoveNextPage |-> "TransformNextPage"]

\* A shortcut search that does not ask whether the row is enabled.
ShortcutIndex_IgnoresEnabled(its, ch) ==
    LET hit == {i \in 0..(Len(its) - 1) : At(its, i).Shortcut = ch}
    IN  IF hit = {} THEN -1 ELSE CHOOSE i \in hit : \A j \in hit : i <= j

\* The index of the first enabled row whose shortcut is ch, or -1.
ShortcutIndex(its, ch) ==
    LET hit == {i \in 0..(Len(its) - 1) : At(its, i).Enabled /\ At(its, i).Shortcut = ch}
    IN  IF hit = {} THEN -1 ELSE CHOOSE i \in hit : \A j \in hit : i <= j

\* The shortcut search of the key handler: on a match the row becomes the
\* current one and its callbacks fire.
KeyShortcut(l, ch) ==
    LET index == ShortcutIndex(l.items, ch)
        l1    == [l EXCEPT !.currentItem = index]
    IN  FireSelected(l1, "shortcut", At(l1.items, index))

\* The navigation keys of the key handler.
KeyNavigate(l, key) ==
    IF key \in DOMAIN NavKeys THEN transform(l, NavKeys[key]) ELSE l

\* The tail of the key handler: fire "changed" if the selection moved.
KeyFire(l, previousItem) ==
    IF l.status # "ok" THEN l
    ELSE IF l.currentItem # previousItem /\ l.currentItem < Len(l.items)
            /\ changed # "nil"
    THEN LET l1 == Checked(l, l.currentItem)
         IN  IF l1.status # "ok" THEN l1
             ELSE CallChanged(Unlock(l1), "InputHandler", l1.currentItem,
                              At(l1.items, l1.currentItem))
    ELSE Unlock(l)

\* The key handler from the shortcut search on.
KeyRest(l, event, previousItem) ==
    IF l.status # "ok" THEN l
    ELSE LET isShortcut == event.rune # "" /\ event.rune # " "
                           /\ ShortcutIndex(l.items, event.rune) # -1
             l1 == IF isShortcut THEN KeyShortcut(l, event.rune)
                   ELSE KeyNavigate(l, event.key)
         IN  KeyFire(l1, previousItem)

\* A select key that does not ask whether the row is enabled.
KeySelect_IgnoresEnabled(l) ==
    IF InRange(l.items, l.currentItem)
    THEN FireSelected(l, "select", At(l.items, l.currentItem))
    ELSE l

\* The select key: the current row's callbacks, if the row is enabled.
KeySelect(l) ==
    IF InRange(l.items, l.currentItem)
       /\ At(l.items, l.currentItem).Enabled
    THEN FireSelected(l, "select", At(l.items, l.currentItem))
    ELSE l

InputHandler(l0, event) ==
    LET l1 == Lock(l0)
        previousItem == l1.currentItem
    IN  IF l1.status # "ok" THEN l1
        ELSE IF event.key = "Cancel"
        THEN IF l1.menuOpen THEN hide(Unlock(l1))
             ELSE IF done # "nil" THEN CallDone(Unlock(l1))
             ELSE Unlock(l1)
        ELSE IF event.key = "Select"
        THEN KeyRest(KeySelect(l1), event, previousItem)
        ELSE IF event.key = "ShowContextMenu"
        THEN show(KeyRest(l1, event, previousItem))
        ELSE IF Len(l1.items) = 0 THEN Unlock(l1)
        ELSE KeyRest(l1, event, previousItem)

\* ------------------------------------------------------------ mouse input
\* A mouse position relative to the list: inside the open context menu's
\* rectangle, inside the list's rectangle, horizontally inside its inner
\* rectangle, and dy = y - rectY, the line below the inner rectangle's top.
MouseActions ==
    {"MouseLeftClick", "MouseMiddleClick", "MouseRightDown", "MouseMove",
     "MouseScrollUp", "MouseScrollDown"}

indexAtY(l, pos) ==
    IF pos.dy < 0 \/ pos.dy >= rectHeight THEN -1
    ELSE LET index == (IF showSecondaryText THEN GoDiv(pos.dy, 2) ELSE pos.dy)
                      + l.offset
         IN  IF index >= Len(l.items) THEN -1 ELSE index

indexAtPoint(l, pos) ==
    IF ~pos.inInner THEN -1 ELSE indexAtY(l, pos)

\* case MouseLeftClick, from the hit test on (the menu is closed).
MouseLeftClick(l, pos) ==
    LET index == indexAtPoint(l, pos)
        l1    == Checked(l, index)
    IN  IF index = -1 THEN l
        ELSE IF l1.status # "ok" THEN l1
        ELSE LET item == At(l1.items, index)
             IN  IF ~item.Enabled THEN l1
                 ELSE LET l2 == [l1 EXCEPT !.currentItem = index]
                          l3 == IF item.Selected # "nil"
                                THEN Lock(CallItemSelected(Unlock(l2),
                                                           "click", item))
                                ELSE l2
                          l4 == IF selected # "nil"
                                THEN Lock(CallSelected(Unlock(l3), "click",
                                                       index, item))
                                ELSE l3
                      IN  IF l4.status = "ok" /\ index # l4.currentItem
                             /\ changed # "nil"
                          THEN Lock(CallChanged(Unlock(l4), "click", index,
                                                item))
                          ELSE l4

\* case MouseRightDown, from the hit test on (the menu has options).
MouseRightDown(l, pos) ==
    LET index == indexAtPoint(l, pos)
        l1    == Checked(l, index)
    IN  IF index = -1 THEN l
        ELSE IF l1.status # "ok" THEN l1
        ELSE LET item == At(l1.items, index)
             IN  IF ~item.Enabled THEN l1
                 ELSE LET l2 == [l1 EXCEPT !.currentItem = index]
                      IN  IF index # l2.currentItem /\ changed # "nil"
                          THEN Lock(CallChanged(Unlock(l2), "rightdown",
                                                index, item))
                          ELSE l2

\* A mouse move that does not ask whether the row is enabled.
MouseMove_IgnoresEnabled(l, pos) ==
    LET index == indexAtY(l, pos)
        l1    == Checked(l, index)
    IN  IF ~hover \/ index < 0 THEN l
        ELSE IF l1.status # "ok" THEN l1
        ELSE [l1 EXCEPT !.currentItem = index]

\* case MouseMove
MouseMove(l, pos) ==
    LET index == indexAtY(l, pos)
        l1    == Checked(l, index)
    IN  IF ~hover \/ index < 0 THEN l
        ELSE IF l1.status # "ok" THEN l1
        ELSE IF At(l1.items, index).Enabled
             THEN [l1 EXCEPT !.currentItem = index]
             ELSE l1

\* case MouseScrollUp
MouseScrollUp(l) ==
    IF l.offset > 0 THEN [l EXCEPT !.offset = @ - 1] ELSE l

\* A scroll down that does not ask whether rows are left below.
MouseScrollDown_Always(l) == [l EXCEPT !.offset = @ + 1]

\* case MouseScrollDown
MouseScrollDown(l) ==
    LET n     == Len(l.items) - l.offset
        lines == IF showSecondaryText THEN 2 * n ELSE n
    IN  IF lines > rectHeight THEN [l EXCEPT !.offset = @ + 1] ELSE l

\* An event inside the open context menu is handed to the menu's own list,
\* a separate List instance, after this list's lock is released.
MouseHandler(l0, action, pos) ==
    LET l1 == Lock(l0)
    IN  IF l1.status # "ok" THEN l1
        ELSE IF l1.menuOpen /\ pos.inMenu THEN Unlock(l1)
        ELSE IF ~pos.inRect THEN Unlock(l1)
        ELSE CASE action = "MouseLeftClick" ->
                    IF l1.menuOpen THEN hide(Unlock(l1))
                    ELSE Unlock(MouseLeftClick(Lock(Unlock(l1)), pos))
               [] action = "MouseMiddleClick" ->
                    IF l1.menuOpen THEN hide(Unlock(l1)) ELSE Unlock(l1)
               [] action = "MouseRightDown" ->
                    IF menuItems = 0 THEN Unlock(l1)
                    ELSE show(Unlock(MouseRightDown(l1, pos)))
               [] action = "MouseMove" -> Unlock(MouseMove(l1, pos))
               [] action = "MouseScrollUp" -> Unlock(MouseScrollUp(l1))
               [] action = "MouseScrollDown" -> Unlock(MouseScrollDown(l1))
               [] OTHER -> Unlock(l1)

\* The mouse handler's first result, consumed.
MouseConsumed(l, action, pos) ==
    IF l.menuOpen /\ pos.inMenu THEN TRUE
    ELSE IF ~pos.inRect THEN FALSE
    ELSE CASE action = "MouseLeftClick" -> TRUE
           [] action = "MouseMiddleClick" -> l.menuOpen
           [] action = "MouseRightDown" -> menuItems # 0
           [] action = "MouseMove" -> hover
           [] action = "MouseScrollUp" -> TRUE
           [] action = "MouseScrollDown" -> TRUE
           [] OTHER -> FALSE

\* ------------------------------------------- the older List of the source
\* The second List type of list.go. Its mouse handler takes no lock; every
\* access it makes to items, currentItem and offset is logged with the state
\* of the mutex at that moment.
Touch(l, field) ==
    IF l.status # "ok" THEN l
    ELSE Record(l, Event(l, "OlderMouseHandler", "access", field, -1, "", "",
                         NoShortcut))

\* The older SetOffset stores its argument as given.
OlderSetOffset(l0, off) ==
    LET l1 == Lock(l0)
    IN  IF l1.status # "ok" THEN l1 ELSE Unlock([l1 EXCEPT !.offset = off])

\* case MouseLeftClick of the older handler, from the hit test on.
OlderLeftClick(l, pos) ==
    LET l0    == Touch(l, "items, offset")
        index == indexAtPoint(l0, pos)
        l1    == Checked(l0, index)
    IN  IF index = -1 THEN l0
        ELSE IF l1.status # "ok" THEN l1
        ELSE LET item == At(l1.items, index)
             IN  IF ~item.Enabled THEN l1
                 ELSE LET l2 == Touch([l1 EXCEPT !.currentItem = index],
                                      "currentItem")
                          l3 == IF item.Selected # "nil"
                                THEN CallItemSelected(l2, "click", item)
                                ELSE l2
                          l4 == IF selected # "nil"
                                THEN CallSelected(l3, "click", index, item)
                                ELSE l3
                      IN  IF l4.status = "ok" /\ index # l4.currentItem
                             /\ changed # "nil"
                          THEN CallChanged(l4, "click", index, item)
                          ELSE l4

\* case MouseRightDown of the older handler, up to the test for menu options.
OlderRightDown(l, pos) ==
    LET l0    == Touch(l, "items, offset")
        index == indexAtPoint(l0, pos)
        l1    == Checked(l0, index)
    IN  IF index = -1 THEN l0
        ELSE IF l1.status # "ok" THEN l1
        ELSE LET item == At(l1.items, index)
             IN  IF ~item.Enabled THEN l1
                 ELSE LET l2 == Touch([l1 EXCEPT !.currentItem = index],
                                      "currentItem")
                      IN  IF index # l2.currentItem /\ changed # "nil"
                          THEN CallChanged(l2, "rightdown", index, item)
                          ELSE l2

\* The older mouse handler. With menu options a right click releases the
\* lock, shows the menu and takes the lock; without, it hands the event on
\* as a left click once it has returned.
OlderMouseHandler(l, action, pos) ==
    IF l.status # "ok" THEN l
    ELSE IF l.menuOpen /\ pos.inMenu THEN l
    ELSE IF ~pos.inRect THEN l
    ELSE CASE action = "MouseLeftClick" ->
                IF l.menuOpen THEN hide(l) ELSE OlderLeftClick(l, pos)
           [] action = "MouseMiddleClick" ->
                IF l.menuOpen THEN hide(l) ELSE l
           [] action = "MouseRightDown" ->
                LET l1 == OlderRightDown(l, pos)
                IN  IF l1.status # "ok" THEN l1
                    ELSE IF menuItems > 0
                    THEN Lock(show(Unlock(Touch(l1, "currentItem"))))
                    ELSE IF l1.menuOpen THEN hide(l1)
                    ELSE OlderLeftClick(l1, pos)
           [] action = "MouseMove" ->
                IF hover THEN Touch(MouseMove(Touch(l, "items, offset"), pos),
                                    "currentItem")
                ELSE l
           [] action = "MouseScrollUp" ->
                Touch(MouseScrollUp(l), "offset")
           [] action = "MouseScrollDown" ->
                Touch(MouseScrollDown(l), "items, offset")
           [] OTHER -> l

\* The older updateOffset: it uses the height cached by the last Draw and
\* brings the offset back into no range.
OlderUpdateOffset(l) ==
    IF l.currentItem < l.offset
    THEN [l EXCEPT !.offset = l.currentItem]
    ELSE IF showSecondaryText
    THEN IF 2 * (l.currentItem - l.offset) >= l.height - 1
         THEN [l EXCEPT !.offset = GoDiv(2 * l.currentItem + 3 - l.height, 2)]
         ELSE l
    ELSE IF l.currentItem - l.offset >= l.height
         THEN [l EXCEPT !.offset = l.currentItem + 1 - l.height]
         ELSE l

\* An older switch without the page commands.
OlderCandidate_NoPages(l, tr) ==
    CASE tr = "TransformFirstItem"    -> [l EXCEPT !.currentItem = 0, !.offset = 0]
      [] tr = "TransformLastItem"     -> [l EXCEPT !.currentItem = Len(l.items) - 1]
      [] tr = "TransformPreviousItem" -> [l EXCEPT !.currentItem = @ - 1]
      [] tr = "TransformNextItem"     -> [l EXCEPT !.currentItem = @ + 1]
      [] OTHER -> l

\* The switch of the older transform.
OlderCandidate(l, tr) ==
    CASE tr = "TransformFirstItem"    -> [l EXCEPT !.currentItem = 0, !.offset = 0]
      [] tr = "TransformLastItem"     -> [l EXCEPT !.currentItem = Len(l.items) - 1]
      [] tr = "TransformPreviousItem" -> [l EXCEPT !.currentItem = @ - 1]
      [] tr = "TransformNextItem"     -> [l EXCEPT !.currentItem = @ + 1]
      [] tr = "TransformPreviousPage" -> [l EXCEPT !.currentItem = @ - 5]
      [] tr = "TransformNextPage"     -> [l EXCEPT !.currentItem = @ + 5]
      [] OTHER -> l

\* The loop of the older transform.
RECURSIVE OlderSkipLoop(_, _, _)
OlderSkipLoop(l, i, decreasing) ==
    IF i >= Len(l.items) THEN l
    ELSE LET l1 == IF l.currentItem < 0
                   THEN IF wrapAround
                        THEN [l EXCEPT !.currentItem = Len(l.items) - 1]
                        ELSE [l EXCEPT !.currentItem = 0, !.offset = 0]
                   ELSE IF l.currentItem >= Len(l.items)
                   THEN IF wrapAround
                        THEN [l EXCEPT !.currentItem = 0, !.offset = 0]
                        ELSE [l EXCEPT !.currentItem = Len(l.items) - 1]
                   ELSE l
         IN  IF At(l1.items, l1.currentItem).Enabled THEN l1
             ELSE OlderSkipLoop(
                      [l1 EXCEPT !.currentItem = IF decreasing THEN @ - 1
                                                 ELSE @ + 1],
                      i + 1, decreasing)

\* The older transform.
OlderTransform(l, tr) ==
    OlderUpdateOffset(
        OlderSkipLoop(OlderCandidate(l, tr), 0,
                      tr \in {"TransformFirstItem", "TransformPreviousItem",
                              "TransformPreviousPage"}))

\* ------------------------------------------------------------------ inputs
\* The rows InsertItem is called with: texts, shortcut, own callback.
StoreRows ==
    {[MainText |-> "a", SecondaryText |-> "x", Shortcut |-> NoShortcut,
      Selected |-> "nil"],
     [MainText |-> "b", SecondaryText |-> "", Shortcut |-> "j",
      Selected |-> "nil"]}

InputRows ==
    {[MainText |-> "a", SecondaryText |-> "x", Shortcut |-> NoShortcut,
      Selected |-> "observe"],
     [MainText |-> "b", SecondaryText |-> "", Shortcut |-> "j",
      Selected |-> "remove"]}

\* Index arguments for a list of at most n rows: in range, negative, and
\* past either end.
Indices(n) == (-(n + 2))..(n + 1)

KeyEvents ==
    [key : {"Cancel", "Select", "ShowContextMenu", "MoveFirst", "MoveLast",
            "MoveUp", "MoveDown", "MovePreviousPage", "MoveNextPage"},
     rune : {""}]
    \cup {[key |-> "None", rune |-> "j"], [key |-> "MoveDown", rune |-> "j"],
          [key |-> "None", rune |-> "z"], [key |-> "Select", rune |-> " "]}

MousePositions ==
    {[inMenu |-> TRUE,  inRect |-> FALSE, inInner |-> FALSE, dy |-> -1],
     [inMenu |-> FALSE, inRect |-> FALSE, inInner |-> FALSE, dy |-> -1],
     [inMenu |-> FALSE, inRect |-> TRUE,  inInner |-> FALSE, dy |-> 0],
     [inMenu |-> FALSE, inRect |-> TRUE,  inInner |-> TRUE,  dy |-> -1]}
    \cup {[inMenu |-> FALSE, inRect |-> TRUE, inInner |-> TRUE, dy |-> d] :
            d \in {y \in 0..(rectHeight - 1) : y <= 2 * Len(items)}}

\* ----------------------------------------------------------------- actions
\* The ghost field mark follows one row through the slice operations: the
\* row that is current when InsertItem or RemoveItem is called.
Marked(its, cur) ==
    [i \in 1..Len(its) |-> [its[i] EXCEPT !.mark = (i = cur + 1)]]

Unmarked(its) ==
    [i \in 1..Len(its) |-> [its[i] EXCEPT !.mark = FALSE]]

\* The list as the next operation finds it.
Here(its) ==
    ListOf(its, currentItem, offset, height, mu, status, <<>>, menuOpen)

\* What `last` keeps of an operation: its name, its index argument as the
\* operation normalizes it, its other argument, and the selection and length
\* it started from.
Op(op, index, what) ==
    [op |-> op, index |-> index, what |-> what, cur |-> currentItem,
     len |-> Len(items)]

NoOp == [op |-> "", index |-> -1, what |-> "", cur |-> 0, len |-> 0]

Put(l, op) ==
    /\ items' = l.items
    /\ currentItem' = l.currentItem
    /\ offset' = l.offset
    /\ height' = l.height
    /\ mu' = l.mu
    /\ status' = l.status
    /\ events' = l.events
    /\ menuOpen' = l.menuOpen
    /\ last' = op

\* A crashed or blocked program takes no further step.
Alive == status = "ok"

config == <<showSecondaryText, selectedAlwaysVisible, selectedAlwaysCentered,
            wrapAround, hover, changed, selected, done, menuItems, rectHeight>>

\* The operations, for a list of at most n rows; with history, `last`
\* describes the operation (for SetCurrentItem, with the index as given).
InsertItemStep(n, rows, history) ==
    /\ Alive
    /\ Len(items) < n
    /\ \E index \in Indices(n), row \in rows :
          Put(InsertItem(Here(Marked(items, currentItem)), index, row),
              IF history
              THEN Op("InsertItem", InsertIndex(index, Len(items)), "")
              ELSE NoOp)
    /\ UNCHANGED config

RemoveItemStep(n, history) ==
    /\ Alive
    /\ \E index \in Indices(n) :
          Put(RemoveItem(Here(Marked(items, currentItem)), index),
              IF history
              THEN Op("RemoveItem", ClampIndex(index, Len(items)), "")
              ELSE NoOp)
    /\ UNCHANGED config

SetCurrentItemStep(n, history) ==
    /\ Alive
    /\ \E index \in Indices(n) :
          Put(SetCurrentItem(Here(Unmarked(items)), index),
              IF history
              THEN Op("SetCurrentItem", index, "")
              ELSE NoOp)
    /\ UNCHANGED config

ClearStep(history) ==
    /\ Alive
    /\ Put(Clear(Here(Unmarked(items))),
           IF history THEN Op("Clear", -1, "") ELSE NoOp)
    /\ UNCHANGED config

SetItemEnabledStep(history) ==
    /\ Alive
    /\ \E index \in 0..(Len(items) - 1), enabled \in BOOLEAN :
          Put(SetItemEnabled(Here(Unmarked(items)), index, enabled),
              IF history THEN Op("SetItemEnabled", index, "") ELSE NoOp)
    /\ UNCHANGED config

\* On an empty list a command moves currentItem without limit; the model
\* stops it MaxDrift away from 0.
TransformStep(history) ==
    /\ Alive
    /\ Len(items) > 0 \/ (-MaxDrift <= currentItem /\ currentItem <= MaxDrift)
    /\ \E tr \in Transformations :
          Put(Transform(Here(Unmarked(items)), tr),
              IF history THEN Op("Transform", -1, tr) ELSE NoOp)
    /\ UNCHANGED config

\* The setters take the lock, assign one field and release the lock.
Set(op, history) ==
    /\ Alive
    /\ Put(Here(Unmarked(items)), IF history THEN Op(op, -1, "") ELSE NoOp)

SetWrapAroundStep(history) ==
    /\ Set("SetWrapAround", history)
    /\ wrapAround' = ~wrapAround
    /\ UNCHANGED <<showSecondaryText, selectedAlwaysVisible,
                   selectedAlwaysCentered, hover, changed, selected, done,
                   menuItems, rectHeight>>

SetChangedFuncStep(history) ==
    /\ Set("SetChangedFunc", history)
    /\ \E handler \in {"nil", "observe"} : changed' = handler
    /\ UNCHANGED <<showSecondaryText, selectedAlwaysVisible,
                   selectedAlwaysCentered, wrapAround, hover, selected, done,
                   menuItems, rectHeight>>

\* ------------------------------------------------- Spec: the item store
\* Rows are inserted, removed and selected at every index; navigation
\* commands are part of it because they move currentItem too.
DoInsertItem == InsertItemStep(MaxItems, StoreRows, TRUE)
DoRemoveItem == RemoveItemStep(MaxItems, TRUE)
DoSetCurrentItem == SetCurrentItemStep(MaxItems, TRUE)
DoClear == ClearStep(TRUE)
DoTransform == TransformStep(TRUE)
DoSetChangedFunc == SetChangedFuncStep(TRUE)

\* NewList(), drawn in a Box whose inner rectangle is ViewHeight lines high.
Init ==
    /\ items = <<>>
    /\ currentItem = 0
    /\ offset = 0
    /\ height = 0
    /\ showSecondaryText = TRUE
    /\ selectedAlwaysVisible = FALSE
    /\ selectedAlwaysCentered = FALSE
    /\ wrapAround = FALSE
    /\ hover = FALSE
    /\ changed = "nil"
    /\ selected = "nil"
    /\ done = "nil"
    /\ menuOpen = FALSE
    /\ menuItems = 0
    /\ rectHeight = ViewHeight
    /\ mu = "free"
    /\ status = "ok"
    /\ events = <<>>
    /\ last = NoOp

Next ==
    \/ DoInsertItem
    \/ DoRemoveItem
    \/ DoSetCurrentItem
    \/ DoClear
    \/ DoTransform
    \/ DoSetChangedFunc

Spec == Init /\ [][Next]_vars

\* ------------------------------------------- SpecNav: the navigator
\* Lists of up to MaxNav rows, any of them disabled, any row current, with
\* and without wrap-around.
NavRows ==
    {[MainText |-> "a", SecondaryText |-> "x", Shortcut |-> NoShortcut,
      Selected |-> "nil"]}

\* AddItem calls InsertItem() with an index of -1.
NavAddItem ==
    /\ Alive
    /\ Len(items) < MaxNav
    /\ \E row \in NavRows :
          Put(InsertItem(Here(Unmarked(items)), -1, row),
              Op("AddItem", Len(items), ""))
    /\ UNCHANGED config

NavSetItemEnabled == SetItemEnabledStep(TRUE)

NavSetCurrentItem ==
    /\ Alive
    /\ \E index \in 0..(Len(items) - 1) :
          Put(SetCurrentItem(Here(Unmarked(items)), index),
              Op("SetCurrentItem", index, ""))
    /\ UNCHANGED config

NavSetWrapAround == SetWrapAroundStep(TRUE)
NavTransform == TransformStep(TRUE)

NextNav ==
    \/ NavAddItem
    \/ NavSetItemEnabled
    \/ NavSetCurrentItem
    \/ NavSetWrapAround
    \/ NavTransform

SpecNav == Init /\ [][NextNav]_vars

\* --------------------------------- SpecKeys: the navigation keys
\* Lists of up to MaxKeyRows rows, any of them disabled, any row current,
\* with and without wrap-around and a changed subscriber, driven by the
\* navigation keys.
KeysAddItem ==
    /\ Alive
    /\ Len(items) < MaxKeyRows
    /\ \E row \in NavRows :
          Put(InsertItem(Here(Unmarked(items)), -1, row),
              Op("AddItem", Len(items), ""))
    /\ UNCHANGED config

KeysSetItemEnabled == SetItemEnabledStep(TRUE)
KeysSetCurrentItem == NavSetCurrentItem
KeysSetWrapAround == SetWrapAroundStep(TRUE)
KeysSetChangedFunc == SetChangedFuncStep(TRUE)

KeysInputHandler ==
    /\ Alive
    /\ \E key \in DOMAIN NavKeys :
          Put(InputHandler(Here(Unmarked(items)), [key |-> key, rune |-> ""]),
              Op("InputHandler", -1, key))
    /\ UNCHANGED config

NextKeys ==
    \/ KeysAddItem
    \/ KeysSetItemEnabled
    \/ KeysSetCurrentItem
    \/ KeysSetWrapAround
    \/ KeysSetChangedFunc
    \/ KeysInputHandler

SpecKeys == Init /\ [][NextKeys]_vars

\* ------------------------------ SpecAccess: access to a row by index
\* Rows are read and written at every index, in range or not, in lists
\* with any row current and any offset.
AccessTexts == {<<"a", "x">>, <<"c", "">>}

AccessInsertItem ==
    /\ Alive
    /\ Len(items) < MaxAccessRows
    /\ \E index \in Indices(MaxAccessRows), row \in NavRows :
          Put(InsertItem(Here(Unmarked(items)), index, row), NoOp)
    /\ UNCHANGED config

AccessGetItemText ==
    /\ Alive
    /\ \E index \in Indices(MaxAccessRows) :
          Put(GetItemText(Here(Unmarked(items)), index),
              Op("GetItemText", index, ""))
    /\ UNCHANGED config

AccessSetItemText ==
    /\ Alive
    /\ \E index \in Indices(MaxAccessRows), t \in AccessTexts :
          Put(SetItemText(Here(Unmarked(items)), index, t[1], t[2]),
              Op("SetItemText", index, ""))
    /\ UNCHANGED config

AccessSetItemEnabled ==
    /\ Alive
    /\ \E index \in Indices(MaxAccessRows), enabled \in BOOLEAN :
          Put(SetItemEnabled(Here(Unmarked(items)), index, enabled),
              Op("SetItemEnabled", index, ""))
    /\ UNCHANGED config

AccessSetOffset ==
    /\ Alive
    /\ \E off \in (-1)..MaxAccessRows :
          Put(SetOffset(Here(Unmarked(items)), off), NoOp)
    /\ UNCHANGED config

NextAccess ==
    \/ AccessInsertItem
    \/ AccessGetItemText
    \/ AccessSetItemText
    \/ AccessSetItemEnabled
    \/ AccessSetOffset

SpecAccess == Init /\ [][NextAccess]_vars

\* ------------------------------------------ SpecView: the viewport
\* Lists of up to MaxViewRows rows in a Box of every height up to
\* MaxHeight, with one-line and two-line rows, every visibility policy and
\* any offset, navigated and drawn.  `last` names a navigation command or a
\* draw until the next change to the list or its Box.
Did(op) == [NoOp EXCEPT !.op = op]

ViewAddItem ==
    /\ Alive
    /\ Len(items) < MaxViewRows
    /\ \E row \in NavRows :
          Put(InsertItem(Here(Unmarked(items)), -1, row), NoOp)
    /\ UNCHANGED config

ViewRemoveItem ==
    /\ Alive
    /\ Len(items) > 0
    /\ Put(RemoveItem(Here(Unmarked(items)), -1), NoOp)
    /\ UNCHANGED config

ViewSetCurrentItem ==
    /\ Alive
    /\ \E index \in 0..(Len(items) - 1) :
          Put(SetCurrentItem(Here(Unmarked(items)), index), NoOp)
    /\ UNCHANGED config

ViewSetOffset ==
    /\ Alive
    /\ \E off \in (-1)..MaxViewRows :
          Put(SetOffset(Here(Unmarked(items)), off), NoOp)
    /\ UNCHANGED config

ViewTransform ==
    /\ Alive
    /\ Len(items) > 0 \/ (-MaxDrift <= currentItem /\ currentItem <= MaxDrift)
    /\ \E tr \in Transformations :
          Put(Transform(Here(Unmarked(items)), tr), Did("Transform"))
    /\ UNCHANGED config

ViewDraw ==
    /\ Alive
    /\ Put(Draw(Here(Unmarked(items))), Did("Draw"))
    /\ UNCHANGED config

\* The Box is given a new rectangle: GetInnerRect returns another height.
ViewSetRect ==
    /\ Alive
    /\ Put(Here(Unmarked(items)), NoOp)
    /\ \E h \in 0..MaxHeight : rectHeight' = h
    /\ UNCHANGED <<showSecondaryText, selectedAlwaysVisible,
                   selectedAlwaysCentered, wrapAround, hover, changed, selected,
                   done, menuItems>>

ViewShowSecondaryText ==
    /\ Alive
    /\ Put(Here(Unmarked(items)), NoOp)
    /\ showSecondaryText' = ~showSecondaryText
    /\ UNCHANGED <<selectedAlwaysVisible, selectedAlwaysCentered, wrapAround,
                   hover, changed, selected, done, menuItems, rectHeight>>

ViewSetSelectedAlwaysVisible ==
    /\ Alive
    /\ Put(Here(Unmarked(items)), NoOp)
    /\ selectedAlwaysVisible' = ~selectedAlwaysVisible
    /\ UNCHANGED <<showSecondaryText, selectedAlwaysCentered, wrapAround,
                   hover, changed, selected, done, menuItems, rectHeight>>

ViewSetSelectedAlwaysCentered ==
    /\ Alive
    /\ Put(Here(Unmarked(items)), NoOp)
    /\ selectedAlwaysCentered' = ~selectedAlwaysCentered
    /\ UNCHANGED <<showSecondaryText, selectedAlwaysVisible, wrapAround,
                   hover, changed, selected, done, menuItems, rectHeight>>

NextView ==
    \/ ViewAddItem
    \/ ViewRemoveItem
    \/ ViewSetCurrentItem
    \/ ViewSetOffset
    \/ ViewTransform
    \/ ViewDraw
    \/ ViewSetRect
    \/ ViewShowSecondaryText
    \/ ViewSetSelectedAlwaysVisible
    \/ ViewSetSelectedAlwaysCentered

SpecView == Init /\ [][NextView]_vars

\* --------------------------------------- SpecSelect: the select key
\* Lists of up to MaxRows rows, with and without callbacks of their own,
\* enabled and disabled, the current index in range or moved out of range
\* by the navigation keys; `last` tells what the select key found.
SelectRows ==
    {[MainText |-> "a", SecondaryText |-> "x", Shortcut |-> NoShortcut,
      Selected |-> cb] : cb \in {"nil", "observe", "remove"}}

\* What the current row is when a key arrives.
CurrentRowIs ==
    IF ~InRange(items, currentItem) THEN "none"
    ELSE IF ~At(items, currentItem).Enabled THEN "disabled"
    ELSE IF At(items, currentItem).Selected = "nil" THEN "plain"
    ELSE "callback"

SelAddItem ==
    /\ Alive
    /\ Len(items) < MaxRows
    /\ \E row \in SelectRows :
          Put(InsertItem(Here(Unmarked(items)), -1, row), NoOp)
    /\ UNCHANGED config

SelSetItemEnabled == SetItemEnabledStep(FALSE)

SelSetSelectedFunc ==
    /\ Set("SetSelectedFunc", FALSE)
    /\ \E handler \in {"nil", "observe", "remove"} : selected' = handler
    /\ UNCHANGED <<showSecondaryText, selectedAlwaysVisible,
                   selectedAlwaysCentered, wrapAround, hover, changed, done,
                   menuItems, rectHeight>>

SelSetCurrentItem ==
    /\ Alive
    /\ \E index \in 0..(Len(items) - 1) :
          Put(SetCurrentItem(Here(Unmarked(items)), index), NoOp)
    /\ UNCHANGED config

SelNavigate ==
    /\ Alive
    /\ \E key \in {"MoveUp", "MoveDown"} :
          Put(InputHandler(Here(Unmarked(items)), [key |-> key, rune |-> ""]),
              NoOp)
    /\ UNCHANGED config

SelSelect ==
    /\ Alive
    /\ \E rune \in {"", " "} :
          Put(InputHandler(Here(Unmarked(items)),
                           [key |-> "Select", rune |-> rune]),
              Op("Select", -1, CurrentRowIs))
    /\ UNCHANGED config

NextSelect ==
    \/ SelAddItem
    \/ SelSetItemEnabled
    \/ SelSetSelectedFunc
    \/ SelSetCurrentItem
    \/ SelNavigate
    \/ SelSelect

SpecSelect == Init /\ [][NextSelect]_vars

\* ------------------------- SpecPick: picking a row by click or shortcut
\* Lists of up to MaxPickRows rows, some sharing a shortcut, enabled and
\* disabled, with observing callbacks set or not; `last` tells which row
\* was clicked or which character was typed, and the row current before.
PickRows ==
    {[MainText |-> "a", SecondaryText |-> "x", Shortcut |-> "j",
      Selected |-> "observe"],
     [MainText |-> "b", SecondaryText |-> "", Shortcut |-> "j",
      Selected |-> "nil"]}

PickAddItem ==
    /\ Alive
    /\ Len(items) < MaxPickRows
    /\ \E row \in PickRows :
          Put(InsertItem(Here(Unmarked(items)), -1, row), NoOp)
    /\ UNCHANGED config

PickSetItemEnabled == SetItemEnabledStep(FALSE)
PickSetChangedFunc == SetChangedFuncStep(FALSE)

PickSetSelectedFunc ==
    /\ Set("SetSelectedFunc", FALSE)
    /\ \E handler \in {"nil", "observe"} : selected' = handler
    /\ UNCHANGED <<showSecondaryText, selectedAlwaysVisible,
                   selectedAlwaysCentered, wrapAround, hover, changed, done,
                   menuItems, rectHeight>>

PickSetCurrentItem ==
    /\ Alive
    /\ \E index \in 0..(Len(items) - 1) :
          Put(SetCurrentItem(Here(Unmarked(items)), index), NoOp)
    /\ UNCHANGED config

\* A left-click inside the inner rectangle, on line dy of it.
PickClick ==
    /\ Alive
    /\ \E dy \in 0..(2 * MaxPickRows - 1) :
          LET pos == [inMenu |-> FALSE, inRect |-> TRUE, inInner |-> TRUE,
                      dy |-> dy]
          IN  Put(MouseHandler(Here(Unmarked(items)), "MouseLeftClick", pos),
                  Op("Click", indexAtPoint(Here(items), pos), ""))
    /\ UNCHANGED config

\* A printable character, on a key that is bound to nothing or on one
\* that is also bound to "move down".
PickRune ==
    /\ Alive
    /\ \E key \in {"None", "MoveDown"}, rune \in {"j", "z"} :
          Put(InputHandler(Here(Unmarked(items)), [key |-> key, rune |-> rune]),
              Op(IF key = "None" THEN "Rune" ELSE "RuneMoveDown", -1, rune))
    /\ UNCHANGED config

NextPick ==
    \/ PickAddItem
    \/ PickSetItemEnabled
    \/ PickSetChangedFunc
    \/ PickSetSelectedFunc
    \/ PickSetCurrentItem
    \/ PickClick
    \/ PickRune

SpecPick == Init /\ [][NextPick]_vars

\* ------------------------------------------------- SpecFind: the search
\* Lists of up to MaxFindRows rows with empty and non-empty texts in either
\* field, dividers among them, searched with empty and non-empty strings
\* and navigated with every command.
FindRows ==
    {[MainText |-> m, SecondaryText |-> s, Shortcut |-> NoShortcut,
      Selected |-> "nil"] : m \in {"", "ab", "B"}, s \in {"", "b"}}

FindSearches == [main : {"", "b", "B"}, secondary : {"", "b"},
                 mustContainBoth : BOOLEAN, ignoreCase : BOOLEAN]

FindAddItem ==
    /\ Alive
    /\ Len(items) < MaxFindRows
    /\ \E row \in FindRows :
          Put(InsertItem(Here(Unmarked(items)), -1, row), NoOp)
    /\ UNCHANGED config

FindSetCurrentItem ==
    /\ Alive
    /\ \E index \in 0..(Len(items) - 1) :
          Put(SetCurrentItem(Here(Unmarked(items)), index), NoOp)
    /\ UNCHANGED config

FindTransform ==
    /\ Alive
    /\ Len(items) > 0
    /\ \E tr \in Transformations :
          Put(Transform(Here(Unmarked(items)), tr), Op("Transform", -1, tr))
    /\ UNCHANGED config

FindFindItems ==
    /\ Alive
    /\ \E s \in FindSearches :
          Put(Here(Unmarked(items)),
              Op("FindItems", -1,
                 [search  |-> s,
                  indices |-> FindItems(Here(items), s.main, s.secondary,
                                        s.mustContainBoth, s.ignoreCase)]))
    /\ UNCHANGED config

NextFind ==
    \/ FindAddItem
    \/ FindSetCurrentItem
    \/ FindTransform
    \/ FindFindItems

SpecFind == Init /\ [][NextFind]_vars

\* ------------------------------------- SpecScroll: the offset's writers
\* Lists of up to MaxScrollRows rows, the empty list among them, in a tall
\* or a one-line rectangle: SetOffset, the scroll wheel, Clear, and the
\* navigation commands and keys. `last` keeps the operation's argument and
\* the offset it started from.
Was(op, index, arg) == Op(op, index, [arg |-> arg, offset |-> offset])

ScrollAddItem ==
    /\ Alive
    /\ Len(items) < MaxScrollRows
    /\ \E row \in NavRows :
          Put(InsertItem(Here(Unmarked(items)), -1, row),
              Was("AddItem", Len(items), ""))
    /\ UNCHANGED config

ScrollClear ==
    /\ Alive
    /\ Put(Clear(Here(Unmarked(items))), Was("Clear", -1, ""))
    /\ UNCHANGED config

ScrollSetOffset ==
    /\ Alive
    /\ \E off \in (-2)..MaxScrollOffset :
          Put(SetOffset(Here(Unmarked(items)), off), Was("SetOffset", off, ""))
    /\ UNCHANGED config

ScrollSetRect ==
    /\ Alive
    /\ Put(Here(Unmarked(items)), Was("SetRect", -1, ""))
    /\ \E h \in {1, ViewHeight} : rectHeight' = h
    /\ UNCHANGED <<showSecondaryText, selectedAlwaysVisible,
                   selectedAlwaysCentered, wrapAround, hover, changed, selected,
                   done, menuItems>>

ScrollSetChangedFunc ==
    /\ Alive
    /\ Put(Here(Unmarked(items)), Was("SetChangedFunc", -1, ""))
    /\ \E handler \in {"nil", "observe"} : changed' = handler
    /\ UNCHANGED <<showSecondaryText, selectedAlwaysVisible,
                   selectedAlwaysCentered, wrapAround, hover, selected, done,
                   menuItems, rectHeight>>

ScrollTransform ==
    /\ Alive
    /\ Len(items) > 0 \/ (-MaxDrift <= currentItem /\ currentItem <= MaxDrift)
    /\ \E tr \in Transformations :
          Put(Transform(Here(Unmarked(items)), tr), Was("Transform", -1, tr))
    /\ UNCHANGED config

ScrollInputHandler ==
    /\ Alive
    /\ \E key \in DOMAIN NavKeys :
          Put(InputHandler(Here(Unmarked(items)), [key |-> key, rune |-> ""]),
              Was("InputHandler", -1, key))
    /\ UNCHANGED config

ScrollWheel ==
    /\ Alive
    /\ \E action \in {"MouseScrollUp", "MouseScrollDown"} :
          Put(MouseHandler(Here(Unmarked(items)), action,
                           [inMenu |-> FALSE, inRect |-> TRUE,
                            inInner |-> TRUE, dy |-> 0]),
              Was(action, -1, ""))
    /\ UNCHANGED config

NextScroll ==
    \/ ScrollAddItem
    \/ ScrollClear
    \/ ScrollSetOffset
    \/ ScrollSetRect
    \/ ScrollSetChangedFunc
    \/ ScrollTransform
    \/ ScrollInputHandler
    \/ ScrollWheel

SpecScroll == Init /\ [][NextScroll]_vars

\* ------------------------------- SpecEdit: where rows go in and come out
\* Lists of up to MaxEditRows rows of two kinds, edited with every index
\* argument; `last` keeps the index as given, the row given, and the rows
\* the list held before the call.
EditInsertItem ==
    /\ Alive
    /\ Len(items) < MaxEditRows
    /\ \E index \in Indices(MaxEditRows), row \in StoreRows :
          Put(InsertItem(Here(Unmarked(items)), index, row),
              Op("InsertItem", index, [row |-> row, before |-> Unmarked(items)]))
    /\ UNCHANGED config

EditRemoveItem ==
    /\ Alive
    /\ \E index \in Indices(MaxEditRows) :
          Put(RemoveItem(Here(Unmarked(items)), index),
              Op("RemoveItem", index, [row |-> "", before |-> Unmarked(items)]))
    /\ UNCHANGED config

EditSetItemEnabled == SetItemEnabledStep(FALSE)
EditSetChangedFunc == SetChangedFuncStep(FALSE)

NextEdit ==
    \/ EditInsertItem
    \/ EditRemoveItem
    \/ EditSetItemEnabled
    \/ EditSetChangedFunc

SpecEdit == Init /\ [][NextEdit]_vars

\* ------------------------------ SpecMenu: input while the menu is open
\* Lists of up to MaxMenuRows enabled rows, each with a callback of its
\* own, under every key and mouse event, with the context menu open and
\* closed, hover on and off. `last` keeps the event, what the handler returned, and the
\* rows, the offset and the menu's state the handler started from.
MenuRows ==
    {[MainText |-> "a", SecondaryText |-> "x", Shortcut |-> "j",
      Selected |-> "observe"]}

MenuPositions ==
    {[inMenu |-> TRUE,  inRect |-> FALSE, inInner |-> FALSE, dy |-> -1],
     [inMenu |-> FALSE, inRect |-> FALSE, inInner |-> FALSE, dy |-> -1],
     [inMenu |-> FALSE, inRect |-> TRUE,  inInner |-> TRUE,  dy |-> 0],
     [inMenu |-> FALSE, inRect |-> TRUE,  inInner |-> TRUE,  dy |-> 2]}

MenuKeys ==
    {[key |-> "Cancel", rune |-> ""], [key |-> "Select", rune |-> ""],
     [key |-> "ShowContextMenu", rune |-> ""],
     [key |-> "MoveDown", rune |-> ""], [key |-> "None", rune |-> "j"]}

Saw(op, arg, consumed) ==
    Op(op, -1, [arg |-> arg, consumed |-> consumed, offset |-> offset,
                menuOpen |-> menuOpen, before |-> Unmarked(items)])

MenuAddItem ==
    /\ Alive
    /\ Len(items) < MaxMenuRows
    /\ \E row \in MenuRows :
          Put(InsertItem(Here(Unmarked(items)), -1, row), NoOp)
    /\ UNCHANGED config

MenuSetOffset ==
    /\ Alive
    /\ \E off \in 0..1 :
          Put(SetOffset(Here(Unmarked(items)), off), NoOp)
    /\ UNCHANGED config

MenuSetHover ==
    /\ Set("SetHover", FALSE)
    /\ hover' = ~hover
    /\ UNCHANGED <<showSecondaryText, selectedAlwaysVisible,
                   selectedAlwaysCentered, wrapAround, changed, selected, done,
                   menuItems, rectHeight>>

MenuSetSelectedFunc ==
    /\ Set("SetSelectedFunc", FALSE)
    /\ \E handler \in {"nil", "observe"} : selected' = handler
    /\ UNCHANGED <<showSecondaryText, selectedAlwaysVisible,
                   selectedAlwaysCentered, wrapAround, hover, changed, done,
                   menuItems, rectHeight>>

MenuSetChangedFunc == SetChangedFuncStep(FALSE)

MenuSetDoneFunc ==
    /\ Set("SetDoneFunc", FALSE)
    /\ \E handler \in {"nil", "observe"} : done' = handler
    /\ UNCHANGED <<showSecondaryText, selectedAlwaysVisible,
                   selectedAlwaysCentered, wrapAround, hover, changed, selected,
                   menuItems, rectHeight>>

\* The owner gives the context menu its first option.
MenuAddContextItem ==
    /\ Set("AddContextItem", FALSE)
    /\ menuItems = 0
    /\ menuItems' = 1
    /\ UNCHANGED <<showSecondaryText, selectedAlwaysVisible,
                   selectedAlwaysCentered, wrapAround, hover, changed, selected,
                   done, rectHeight>>

MenuInputHandler ==
    /\ Alive
    /\ \E event \in MenuKeys :
          Put(InputHandler(Here(Unmarked(items)), event),
              Saw("Key", event, TRUE))
    /\ UNCHANGED config

MenuMouseHandler ==
    /\ Alive
    /\ \E action \in MouseActions, pos \in MenuPositions :
          Put(MouseHandler(Here(Unmarked(items)), action, pos),
              Saw(action, pos, MouseConsumed(Here(items), action, pos)))
    /\ UNCHANGED config

NextMenu ==
    \/ MenuAddItem
    \/ MenuSetOffset
    \/ MenuSetHover
    \/ MenuSetSelectedFunc
    \/ MenuSetChangedFunc
    \/ MenuSetDoneFunc
    \/ MenuAddContextItem
    \/ MenuInputHandler
    \/ MenuMouseHandler

SpecMenu == Init /\ [][NextMenu]_vars

\* ------------------------------------------ SpecHover: the mouse pointer
\* Lists of up to MaxHoverRows rows, enabled or not, scrolled or not, with
\* hover on and off, under a pointer that moves over a row, below the last
\* row, above the first line, and outside the list.
HoverPositions ==
    {[inMenu |-> FALSE, inRect |-> FALSE, inInner |-> FALSE, dy |-> -1]}
    \cup {[inMenu |-> FALSE, inRect |-> TRUE, inInner |-> TRUE, dy |-> d] :
            d \in (-1)..(2 * MaxHoverRows)}

HoverAddItem ==
    /\ Alive
    /\ Len(items) < MaxHoverRows
    /\ \E row \in MenuRows :
          Put(InsertItem(Here(Unmarked(items)), -1, row), NoOp)
    /\ UNCHANGED config

HoverSetItemEnabled == SetItemEnabledStep(FALSE)

HoverSetOffset ==
    /\ Alive
    /\ \E off \in 0..1 :
          Put(SetOffset(Here(Unmarked(items)), off), NoOp)
    /\ UNCHANGED config

HoverSetCurrentItem ==
    /\ Alive
    /\ \E index \in 0..(Len(items) - 1) :
          Put(SetCurrentItem(Here(Unmarked(items)), index), NoOp)
    /\ UNCHANGED config

HoverSetHover == MenuSetHover
HoverSetSelectedFunc == MenuSetSelectedFunc
HoverSetChangedFunc == SetChangedFuncStep(FALSE)

HoverMouseMove ==
    /\ Alive
    /\ \E pos \in HoverPositions :
          Put(MouseHandler(Here(Unmarked(items)), "MouseMove", pos),
              Saw("MouseMove", pos,
                  MouseConsumed(Here(items), "MouseMove", pos)))
    /\ UNCHANGED config

NextHover ==
    \/ HoverAddItem
    \/ HoverSetItemEnabled
    \/ HoverSetOffset
    \/ HoverSetCurrentItem
    \/ HoverSetHover
    \/ HoverSetSelectedFunc
    \/ HoverSetChangedFunc
    \/ HoverMouseMove

SpecHover == Init /\ [][NextHover]_vars

\* ------------------------------- SpecOlder: the older List's mouse handler
\* Lists of up to MaxOlderRows rows under every mouse event, with and
\* without context menu options, the menu open and closed, hover on and off.
OlderAddItem ==
    /\ Alive
    /\ Len(items) < MaxOlderRows
    /\ \E row \in MenuRows :
          Put(InsertItem(Here(Unmarked(items)), -1, row), NoOp)
    /\ UNCHANGED config

OlderSetItemEnabled == SetItemEnabledStep(FALSE)

OlderSetOffsetStep ==
    /\ Alive
    /\ \E off \in 0..1 :
          Put(OlderSetOffset(Here(Unmarked(items)), off), NoOp)
    /\ UNCHANGED config

OlderSetHover == MenuSetHover
OlderSetSelectedFunc == MenuSetSelectedFunc
OlderAddContextItem == MenuAddContextItem

OlderMouse ==
    /\ Alive
    /\ \E action \in MouseActions, pos \in MenuPositions :
          Put(OlderMouseHandler(Here(Unmarked(items)), action, pos),
              Saw(action, pos, TRUE))
    /\ UNCHANGED config

NextOlder ==
    \/ OlderAddItem
    \/ OlderSetItemEnabled
    \/ OlderSetOffsetStep
    \/ OlderSetHover
    \/ OlderSetSelectedFunc
    \/ OlderAddContextItem
    \/ OlderMouse

SpecOlder == Init /\ [][NextOlder]_vars

\* --------------------------- SpecInput: the handlers and their callbacks
InInsertItem == InsertItemStep(MaxRows, InputRows, FALSE)
InRemoveItem == RemoveItemStep(MaxRows, FALSE)
InSetCurrentItem == SetCurrentItemStep(MaxRows, FALSE)
InSetItemEnabled == SetItemEnabledStep(FALSE)
InSetChangedFunc == SetChangedFuncStep(FALSE)

InInputHandler ==
    /\ Alive
    /\ \E event \in KeyEvents :
          Put(InputHandler(Here(Unmarked(items)), event), NoOp)
    /\ UNCHANGED config

InMouseHandler ==
    /\ Alive
    /\ \E action \in MouseActions, pos \in MousePositions :
          Put(MouseHandler(Here(Unmarked(items)), action, pos), NoOp)
    /\ UNCHANGED config

InSetSelectedFunc ==
    /\ Set("SetSelectedFunc", FALSE)
    /\ \E handler \in {"nil", "observe", "remove"} : selected' = handler
    /\ UNCHANGED <<showSecondaryText, selectedAlwaysVisible,
                   selectedAlwaysCentered, wrapAround, hover, changed, done,
                   menuItems, rectHeight>>

InSetDoneFunc ==
    /\ Set("SetDoneFunc", FALSE)
    /\ \E handler \in {"nil", "observe"} : done' = handler
    /\ UNCHANGED <<showSecondaryText, selectedAlwaysVisible,
                   selectedAlwaysCentered, wrapAround, hover, changed, selected,
                   menuItems, rectHeight>>

\* The owner gives the context menu its first option.
InAddContextItem ==
    /\ Set("AddContextItem", FALSE)
    /\ menuItems = 0
    /\ menuItems' = 1
    /\ UNCHANGED <<showSecondaryText, selectedAlwaysVisible,
                   selectedAlwaysCentered, wrapAround, hover, changed, selected,
                   done, rectHeight>>

NextInput ==
    \/ InInsertItem
    \/ InRemoveItem
    \/ InSetCurrentItem
    \/ InSetItemEnabled
    \/ InSetChangedFunc
    \/ InInputHandler
    \/ InMouseHandler
    \/ InSetSelectedFunc
    \/ InSetDoneFunc
    \/ InAddContextItem

SpecInput == Init /\ [][NextInput]_vars

\* ================================================================= claims
\* The list is empty or its current index names a row.
Valid == Len(items) = 0 \/ InRange(items, currentItem)

\* The state the last operation started from had a current row.
HadCurrentRow == 0 <= last.cur /\ last.cur < last.len

\* The last operation ran to its end: no panic, no deadlock, lock released.
Completed == status = "ok" /\ mu = "free"

\* Indices of the enabled rows.
EnabledRows == {i \in 0..(Len(items) - 1) : At(items, i).Enabled}

\* C1: for every non-empty list (any mix of enabled and disabled rows, wrap
\* on or off) and every current index in range, after a single navigation
\* command the current index is in range.
C1_NavigationKeepsIndexInRange ==
    (last.op = "Transform" /\ HadCurrentRow)
        => (Completed /\ InRange(items, currentItem))

\* C2: from a state where the list is empty or the current index is in
\* range, every InsertItem, RemoveItem, SetCurrentItem and Clear call ends in
\* a state where the list is empty or the current index is in range.
C2_StoreKeepsIndexInRange ==
    (/\ last.op \in {"InsertItem", "RemoveItem", "SetCurrentItem", "Clear"}
     /\ (last.len = 0 \/ HadCurrentRow))
        => (Completed /\ Valid)

\* C3: no user-supplied callback (changed, selected, a row's own callback,
\* done) is invoked while the invoking operation holds the list's lock.
C3_CallbacksRunUnlocked ==
    \A i \in DOMAIN events : events[i].mu = "free"

\* One operation has called a row's callback, the list-wide selected and
\* changed.
C3_Witness ==
    /\ \E i \in DOMAIN events : events[i].cb = "item"
    /\ \E i \in DOMAIN events : events[i].cb = "selected"
    /\ \E i \in DOMAIN events : events[i].cb = "changed"

\* C4: when the select key is handled and the list-wide selected callback
\* (or the row's own callback) calls RemoveItem on the currently selected
\* row, the key handler completes (no deadlock, no failure) and ends with the
\* list empty or the current index in range.
C4_SelectSurvivesRemoval ==
    (\E i \in DOMAIN events :
        events[i].site = "select" /\ events[i].does = "remove")
        => (Completed /\ Valid)

\* The select key called a removing callback, the row is gone and rows
\* remain.
C4_Witness ==
    /\ Completed
    /\ Len(items) > 0
    /\ \E i \in DOMAIN events :
          /\ events[i].site = "select"
          /\ events[i].does = "remove"
          /\ events[i].len > Len(items)

\* C5: InsertItem at a normalized index i <= currentIndex on a non-empty
\* list increments currentIndex by exactly one; inserting at i > currentIndex
\* leaves it unchanged; in both cases the row that was current before the
\* insert is still the current row.
C5_InsertShiftsCurrent ==
    (last.op = "InsertItem" /\ last.len > 0)
        => /\ Completed
           /\ currentItem = IF last.index <= last.cur THEN last.cur + 1
                            ELSE last.cur
           /\ HadCurrentRow
                => (InRange(items, currentItem) /\ At(items, currentItem).mark)

\* C6: RemoveItem at a normalized index i < currentIndex decrements
\* currentIndex by exactly one and fires no changed event; removing at
\* i > currentIndex leaves it unchanged and fires no changed event; in both
\* cases the row that was current before is still current.
C6_RemoveShiftsCurrent ==
    (last.op = "RemoveItem" /\ last.len > 0 /\ last.index # last.cur)
        => /\ Completed
           /\ currentItem = IF last.index < last.cur THEN last.cur - 1
                            ELSE last.cur
           /\ events = <<>>
           /\ HadCurrentRow
                => (InRange(items, currentItem) /\ At(items, currentItem).mark)

\* The one changed event RemoveItem owes for the new current row, if there
\* is a subscriber to tell.
TellsNewCurrentRow ==
    IF changed = "nil" THEN events = <<>>
    ELSE /\ Len(events) = 1
         /\ events[1].cb = "changed"
         /\ events[1].index = currentItem
         /\ InRange(items, currentItem)
         /\ events[1].main = At(items, currentItem).MainText
         /\ events[1].secondary = At(items, currentItem).SecondaryText

\* The last operation removed the row that was current.
RemovedCurrentRow ==
    last.op = "RemoveItem" /\ last.len > 0 /\ last.index = last.cur

C8_FirstInsertFiresChanged ==
    (last.op = "InsertItem" /\ last.len = 0 /\ changed # "nil")
        => /\ Completed
           /\ Len(events) = 1
           /\ events[1].cb = "changed"
           /\ events[1].index = 0
           /\ events[1].main = At(items, 0).MainText
           /\ events[1].secondary = At(items, 0).SecondaryText
           /\ events[1].currentItem = 0

\* C9: where at least one enabled row lies strictly beyond the current row
\* in the direction of travel, Next lands on the nearest enabled row with a
\* greater index and Previous on the nearest enabled row with a smaller
\* index, never on a disabled row in between.
C9_SkipsDisabledRows ==
    (last.op = "Transform" /\ HadCurrentRow)
        => LET after  == {i \in EnabledRows : i > last.cur}
               before == {i \in EnabledRows : i < last.cur}
           IN  /\ (last.what = "TransformNextItem" /\ after # {})
                    => (Completed /\ currentItem \in after
                        /\ \A i \in after : currentItem <= i)
               /\ (last.what = "TransformPreviousItem" /\ before # {})
                    => (Completed /\ currentItem \in before
                        /\ \A i \in before : currentItem >= i)

\* [enabled, disabled, enabled], Next from row 0 has landed on row 2.
C9_Witness ==
    /\ last.op = "Transform"
    /\ last.what = "TransformNextItem"
    /\ last.cur = 0
    /\ Len(items) = 3
    /\ At(items, 0).Enabled /\ ~At(items, 1).Enabled /\ At(items, 2).Enabled
    /\ currentItem = 2

\* C10: with wrap-around enabled and at least one enabled row, Previous from
\* index 0 lands on the highest-index enabled row (skipping trailing disabled
\* rows) and Next from the last index lands on the lowest-index enabled row.
C10_WrapsToOppositeEnd ==
    (last.op = "Transform" /\ wrapAround /\ EnabledRows # {})
        => /\ (last.what = "TransformPreviousItem" /\ last.cur = 0)
                => (Completed /\ currentItem \in EnabledRows
                    /\ \A i \in EnabledRows : currentItem >= i)
           /\ (last.what = "TransformNextItem" /\ last.cur = last.len - 1)
                => (Completed /\ currentItem \in EnabledRows
                    /\ \A i \in EnabledRows : currentItem <= i)

\* Previous from row 0 has wrapped past a disabled last row.
C10_Witness ==
    /\ last.op = "Transform"
    /\ last.what = "TransformPreviousItem"
    /\ last.cur = 0
    /\ wrapAround
    /\ Len(items) = 4
    /\ ~At(items, 3).Enabled
    /\ At(items, 2).Enabled
    /\ currentItem = 2

\* C11: with wrap-around disabled, Previous issued while the current row is
\* the first enabled row leaves the selection on the first enabled row, and
\* Next issued while the current row is the last enabled row leaves the
\* selection on the last enabled row.
C11_StaysAtEndWithoutWrap ==
    (/\ last.op = "Transform"
     /\ ~wrapAround
     /\ last.cur \in EnabledRows)
        => /\ (/\ last.what = "TransformPreviousItem"
               /\ \A i \in EnabledRows : last.cur <= i)
                  => (Completed /\ currentItem = last.cur)
           /\ (/\ last.what = "TransformNextItem"
               /\ \A i \in EnabledRows : last.cur >= i)
                  => (Completed /\ currentItem = last.cur)

\* C12: on a list with rows, SetCurrentItem(index) sets currentIndex to
\* index when 0 <= index < len, to len+index when index is negative, clamped
\* to 0 below and len-1 above, and fires changed exactly once with the new
\* row's data if and only if the resulting index differs from the previous
\* currentIndex.
C12_SetCurrentItemNormalizes ==
    (last.op = "SetCurrentItem" /\ last.len > 0)
        => /\ Completed
           /\ currentItem =
                IF last.index < 0
                THEN IF last.len + last.index < 0 THEN 0
                     ELSE last.len + last.index
                ELSE IF last.index >= last.len THEN last.len - 1
                     ELSE last.index
           /\ IF currentItem = last.cur THEN events = <<>>
              ELSE TellsNewCurrentRow

\* SetCurrentItem(-1) on three rows has moved the selection from row 0 to
\* row 2 and told the subscriber.
C12_Witness ==
    /\ last.op = "SetCurrentItem"
    /\ last.index = -1
    /\ last.len = 3
    /\ last.cur = 0
    /\ currentItem = 2
    /\ Len(events) = 1
    /\ events[1].index = 2

\* C13: SetCurrentItem, InsertItem and RemoveItem complete without failure
\* (no out-of-range access) for every integer index in every state reachable
\* through the public operations, including when the list is empty and a
\* changed subscriber is set.
C13_IndexOperationsNeverFail ==
    last.op \in {"SetCurrentItem", "InsertItem", "RemoveItem"} => Completed

\* C14: handling a navigation key (first, last, up, down, page up, page
\* down) on any non-empty list, with any mix of enabled and disabled rows,
\* either wrap setting and a changed subscriber set, completes without an
\* out-of-range access to the item sequence.
C14_NavigationKeysNeverFail ==
    (last.op = "InputHandler" /\ last.len > 0 /\ changed # "nil")
        => Completed

\* C15: GetItemText, SetItemText and SetItemEnabled called with index < 0 or
\* index >= len(items) fail with an out-of-range condition, leave items,
\* currentIndex and offset unchanged, and leave the list's lock released.
C15_OutOfRangeAccessFails ==
    [][(/\ last'.op \in {"GetItemText", "SetItemText", "SetItemEnabled"}
        /\ ~InRange(items, last'.index))
          => (/\ status' = "panic"
              /\ mu' = "free"
              /\ Unmarked(items') = Unmarked(items)
              /\ currentItem' = currentItem
              /\ offset' = offset)]_vars

\* SetItemText(len, ...) has failed on a list with rows, a row other than
\* the first current and rows scrolled off.
C15_Witness ==
    /\ last.op = "SetItemText"
    /\ last.index = last.len
    /\ last.len > 1
    /\ status = "panic"
    /\ mu = "free"
    /\ currentItem > 0
    /\ offset > 0

\* Rows the viewport holds: height for one-line rows, height / 2 for
\* two-line rows.
VisibleCapacity ==
    IF showSecondaryText THEN rectHeight \div 2 ELSE rectHeight

PolicyActive == selectedAlwaysVisible \/ selectedAlwaysCentered

\* C16: after every navigation command and after every draw with a
\* visibility policy active, for whatever viewport height is current at that
\* moment, 0 <= offset <= max(0, len(items) - visibleCapacity).
C16_OffsetWithinBounds ==
    (last.op = "Transform" \/ (last.op = "Draw" /\ PolicyActive))
        => /\ Completed
           /\ 0 <= offset
           /\ offset <= IF Len(items) - VisibleCapacity > 0
                        THEN Len(items) - VisibleCapacity ELSE 0

\* A draw under a policy has brought the offset back to the last full
\* window of a list with rows scrolled off.
C16_Witness ==
    /\ last.op = "Draw"
    /\ PolicyActive
    /\ VisibleCapacity > 0
    /\ offset > 0
    /\ offset = Len(items) - VisibleCapacity
    /\ currentItem < offset + VisibleCapacity - 1

\* C17: whenever the always-visible or always-centered policy is active and
\* the viewport can hold at least one row, after the offset recomputation
\* performed by a draw the current row lies inside the visible window:
\* offset <= currentIndex < offset + visibleCapacity.
C17_CurrentRowVisibleAfterDraw ==
    (/\ last.op = "Draw"
     /\ PolicyActive
     /\ VisibleCapacity >= 1
     /\ InRange(items, currentItem))
        => /\ Completed
           /\ offset <= currentItem
           /\ currentItem < offset + VisibleCapacity

\* C18: with a changed subscriber set, each navigation key event that
\* changes currentIndex fires exactly one changed event carrying the new
\* index, and a navigation key event that leaves currentIndex unchanged
\* fires none.
C18_OneChangedPerMove ==
    (last.op = "InputHandler" /\ changed # "nil")
        => /\ Completed
           /\ IF currentItem = last.cur THEN events = <<>>
              ELSE /\ Len(events) = 1
                   /\ events[1].cb = "changed"
                   /\ events[1].index = currentItem

\* The offset updateOffset computes for the list a callback finds.
Recomputed(e) ==
    updateOffset([items |-> [i \in 1..e.len |-> e.main],
                  currentItem |-> e.currentItem, offset |-> e.offset,
                  height |-> height]).offset

\* C19: at the moment any changed, selected or row callback is invoked, the
\* list already shows the post-transition state: currentIndex equals the
\* index passed to the callback and offset has already been recomputed for
\* that index.
C19_CallbacksSeeNewState ==
    \A i \in DOMAIN events :
        /\ events[i].cb \in {"changed", "selected"}
              => events[i].currentItem = events[i].index
        /\ events[i].cb \in {"changed", "selected", "item"}
              => events[i].offset = Recomputed(events[i])

\* The callbacks the select key has called, in order.
SelectCalls ==
    LET calls == SelectSeq(events, LAMBDA e : e.site = "select")
    IN  [i \in 1..Len(calls) |-> calls[i].cb]

\* C20: the select key fires the current row's own callback and then the
\* list-wide selected callback, in that order, if and only if the current
\* index is in range and the current row is enabled; on a disabled current
\* row neither callback fires; an unset callback is skipped without error.
C20_SelectFiresRowThenList ==
    last.op = "Select"
        => /\ Completed
           /\ SelectCalls =
                IF last.what \in {"plain", "callback"}
                THEN (IF last.what = "callback" THEN <<"item">> ELSE <<>>)
                     \o (IF selected # "nil" THEN <<"selected">> ELSE <<>>)
                ELSE <<>>

\* The select key has called the row's callback and then the list-wide one.
C20_Witness ==
    /\ last.op = "Select"
    /\ last.what = "callback"
    /\ SelectCalls = <<"item", "selected">>

\* The callbacks an operation has called from one of its call sites, in
\* order.
CallsFrom(site) ==
    LET calls == SelectSeq(events, LAMBDA e : e.site = site)
    IN  [i \in 1..Len(calls) |-> calls[i].cb]

\* The set callbacks among a row's own and the list-wide selected, in the
\* order the code calls them.
RowThenList(row) ==
    (IF row.Selected # "nil" THEN <<"item">> ELSE <<>>)
    \o (IF selected # "nil" THEN <<"selected">> ELSE <<>>)

\* C21: on a left-click over an enabled row with no menu open, currentIndex
\* becomes that row and the callbacks fire in the fixed order row callback,
\* list-wide selected, then changed; changed fires whenever the clicked
\* row's index differs from the index that was current before the click.
C21_ClickFiresChanged ==
    (/\ last.op = "Click"
     /\ last.index \in EnabledRows
     /\ ~menuOpen)
        => /\ Completed
           /\ currentItem = last.index
           /\ CallsFrom("click") =
                RowThenList(At(items, last.index))
                \o (IF changed # "nil" /\ last.index # last.cur
                    THEN <<"changed">> ELSE <<>>)

ShortcutHits == {i \in EnabledRows : At(items, i).Shortcut = last.what}

\* C22: a printable, non-space character that is the shortcut of at least
\* one enabled row makes the lowest such row the current one (disabled rows
\* with the same shortcut are passed over), fires that row's callback and
\* then the list-wide "selected" callback, and applies no navigation
\* command even when the same key is bound to one.
C22_ShortcutPicksFirstEnabled ==
    (/\ last.op \in {"Rune", "RuneMoveDown"}
     /\ ShortcutHits # {})
        => /\ Completed
           /\ currentItem \in ShortcutHits
           /\ \A i \in ShortcutHits : currentItem <= i
           /\ CallsFrom("shortcut") = RowThenList(At(items, currentItem))

C22_Witness ==
    /\ last.op = "RuneMoveDown"
    /\ Len(items) = 3
    /\ ~At(items, 0).Enabled /\ At(items, 0).Shortcut = "j"
    /\ ShortcutHits = {1, 2}
    /\ last.cur = 1 /\ currentItem = 1
    /\ CallsFrom("shortcut") = <<"item", "selected">>

\* Whether the field holds the search string, folding case when asked to.
Holds(text, search, ignoreCase) ==
    IF ignoreCase THEN Contains(ToLower(text), ToLower(search))
    ELSE Contains(text, search)

\* The rows a search is to return: with mustContainBoth, both fields hold
\* their strings (an empty string is held by every field); without it, some
\* non-empty search string is held by its field.
Matching(s) ==
    {i \in 0..(Len(items) - 1) :
        LET inMain      == Holds(At(items, i).MainText, s.main, s.ignoreCase)
            inSecondary == Holds(At(items, i).SecondaryText, s.secondary,
                                 s.ignoreCase)
        IN  IF s.mustContainBoth THEN inMain /\ inSecondary
            ELSE \/ s.main # "" /\ inMain
                 \/ s.secondary # "" /\ inSecondary}

\* C23: FindItems returns, in ascending order, exactly the indices of the
\* rows that match: with mustContainBoth both fields contain their search
\* strings, an empty string being contained in every field; without it, at
\* least one non-empty search string is contained in its field.
C23_FindItemsReturnsMatches ==
    last.op = "FindItems" =>
        LET found == last.what.indices
        IN  /\ {found[k] : k \in 1..Len(found)} = Matching(last.what.search)
            /\ \A j, k \in 1..Len(found) : j < k => found[j] < found[k]

IsDivider(item) ==
    item.MainText = "" /\ item.SecondaryText = "" /\ item.Shortcut = NoShortcut

\* C24: a divider row (empty main text, empty secondary text, no shortcut)
\* is never the row a navigation command leaves current in a list that has
\* other rows, and FindItems never returns one.
C24_DividerNeverTarget ==
    /\ (/\ last.op = "Transform"
        /\ \E i \in 0..(Len(items) - 1) : ~IsDivider(At(items, i))
        /\ InRange(items, currentItem))
           => ~IsDivider(At(items, currentItem))
    /\ last.op = "FindItems" =>
           \A k \in 1..Len(last.what.indices) :
               ~IsDivider(At(items, last.what.indices[k]))

\* C25: on a list with zero items every navigation call, a Transform with
\* any command or any navigation key, changes neither the current index
\* nor the offset and fires no callback.
C25_EmptyListNavigationIsNoOp ==
    (last.op \in {"Transform", "InputHandler"} /\ last.len = 0)
        => /\ Completed
           /\ currentItem = last.cur
           /\ offset = last.what.offset
           /\ events = <<>>

\* C30: the offset is never negative, whichever of its writers ran last:
\* SetOffset with a negative argument, the scroll wheel at offset 0, Clear,
\* or a navigation command or key on an empty or a non-empty list.
C30_OffsetNeverNegative == offset >= 0

C30_Witness ==
    /\ last.op = "SetOffset"
    /\ last.index < 0
    /\ last.what.offset > 0
    /\ offset = 0

\* The rows of s without the one at index p.
Without(s, p) == [i \in 1..(Len(s) - 1) |-> IF i <= p THEN s[i] ELSE s[i + 1]]

\* Where InsertItem(index) is to put the row in a list of n rows.
InsertPosition(index, n) ==
    IF index >= 0 THEN (IF index <= n THEN index ELSE n)
    ELSE IF n + index + 1 > 0 THEN n + index + 1 ELSE 0

\* C26: InsertItem(index) on a list of n rows places the new row at index
\* when 0 <= index <= n, at n when index > n, and at max(0, n + index + 1)
\* when index is negative; the list grows by exactly one row, the rows it
\* held keep their order, and the new row is enabled.
C26_InsertItemPlacesRow ==
    last.op = "InsertItem" =>
        LET p == InsertPosition(last.index, last.len)
        IN  /\ Completed
            /\ Len(items) = last.len + 1
            /\ At(items, p).Enabled
            /\ At(items, p).MainText = last.what.row.MainText
            /\ At(items, p).SecondaryText = last.what.row.SecondaryText
            /\ At(items, p).Shortcut = last.what.row.Shortcut
            /\ Without(items, p) = last.what.before

C26_Witness ==
    /\ last.op = "InsertItem"
    /\ last.len = 2
    /\ last.index = -2
    /\ last.what.before[1].MainText = "a" /\ ~last.what.before[1].Enabled
    /\ last.what.before[2].MainText = "b"
    /\ last.what.row.MainText = "b"
    /\ At(items, 1).MainText = "b" /\ At(items, 1).Enabled
    /\ At(items, 0).MainText = "a" /\ At(items, 2).MainText = "b"

\* The row RemoveItem(index) is to remove from a list of n > 0 rows.
RemovePosition(index, n) ==
    LET i == IF index < 0 THEN n + index ELSE index
    IN  IF i < 0 THEN 0 ELSE IF i > n - 1 THEN n - 1 ELSE i

\* C27: RemoveItem(index) on a non-empty list removes exactly one row, the
\* one at the normalized index (a negative index counts from the end, an
\* index out of range is the first or the last row), and the remaining rows
\* keep their order; on an empty list it changes nothing and fires no event.
C27_RemoveItemRemovesOneRow ==
    last.op = "RemoveItem" =>
        /\ Completed
        /\ IF last.len = 0
           THEN items = <<>> /\ currentItem = last.cur /\ events = <<>>
           ELSE items = Without(last.what.before,
                                RemovePosition(last.index, last.len))

C27_Witness ==
    /\ last.op = "RemoveItem"
    /\ last.len = 3
    /\ last.index = -2
    /\ last.what.before[1].MainText = "a"
    /\ last.what.before[2].MainText = "b"
    /\ last.what.before[3].MainText = "a" /\ ~last.what.before[3].Enabled
    /\ Len(items) = 2
    /\ At(items, 0).MainText = "a" /\ At(items, 0).Enabled
    /\ At(items, 1).MainText = "a" /\ ~At(items, 1).Enabled

\* The list a Transform call found: the rows and the wrap-around setting
\* are those of the state after it, the current index is the one `last`
\* kept.
Found == [Here(items) EXCEPT !.currentItem = last.cur]

\* The rounds of the skip loop in the last Transform call.
Rounds == SkipIterations(Candidate(Found, last.what), 0, Decreasing(last.what))

\* C28: the disabled-row skip loop of a navigation command runs its body at
\* most len(items) times and the command then returns, for every list, one
\* whose rows are all disabled included, with wrap-around on or off.
C28_SkipLoopBounded ==
    last.op = "Transform" => (Completed /\ Rounds <= Len(items))

\* Every row disabled, wrap-around on: the loop has gone once round.
C28_Witness ==
    /\ last.op = "Transform"
    /\ wrapAround
    /\ Len(items) = 3
    /\ EnabledRows = {}
    /\ Rounds = 3
    /\ Completed

\* The raw candidate of the last Transform call.
Raw ==
    CASE last.what = "TransformFirstItem"    -> 0
      [] last.what = "TransformLastItem"     -> Len(items) - 1
      [] last.what = "TransformPreviousItem" -> last.cur - 1
      [] last.what = "TransformNextItem"     -> last.cur + 1
      [] last.what = "TransformPreviousPage" -> last.cur - PageSize
      [] last.what = "TransformNextPage"     -> last.cur + PageSize

\* The rule for an index that left the range.
Ruled(i) ==
    IF i < 0 THEN (IF wrapAround THEN Len(items) - 1 ELSE 0)
    ELSE IF i > Len(items) - 1 THEN (IF wrapAround THEN 0 ELSE Len(items) - 1)
    ELSE i

WasInput == last.op \in MouseActions \cup {"Key"}

\* The paths that close the context menu.
ClosesMenu ==
    \/ last.op = "Key" /\ last.what.arg.key = "Cancel"
    \/ last.op \in {"MouseLeftClick", "MouseMiddleClick"}

\* C31: while the context menu is open, input handled by the owning list
\* changes neither its current index nor its offset and fires none of its
\* selected or row callbacks, except on the paths that close the menu (the
\* cancel key, a left click, a middle click).
C31_OpenMenuSuppressesInput ==
    (WasInput /\ last.what.menuOpen /\ ~ClosesMenu)
        => /\ currentItem = last.cur
           /\ offset = last.what.offset
           /\ \A i \in DOMAIN events : events[i].cb \notin {"selected", "item"}

\* The callbacks the last operation made, in order.
Calls == [i \in 1..Len(events) |-> events[i].cb]

\* C32: the cancel key closes the context menu without firing done when the
\* menu is open, and fires done exactly once, if subscribed, when it is
\* not; either way the rows, the current index and the offset are unchanged
\* and no changed or selected callback fires.
C32_CancelClosesMenuOrFiresDone ==
    (last.op = "Key" /\ last.what.arg.key = "Cancel")
        => /\ Completed
           /\ items = last.what.before
           /\ currentItem = last.cur
           /\ offset = last.what.offset
           /\ ~menuOpen
           /\ Calls = IF ~last.what.menuOpen /\ done # "nil"
                      THEN <<"done">> ELSE <<>>

C32_Witness ==
    /\ last.op = "Key"
    /\ last.what.arg.key = "Cancel"
    /\ last.what.menuOpen
    /\ done # "nil" /\ selected # "nil"
    /\ Len(items) = 2
    /\ ~menuOpen
    /\ events = <<>>

\* The lines the rows from the offset on took up when the wheel turned.
LinesBelow ==
    (IF showSecondaryText THEN 2 ELSE 1) * (last.len - last.what.offset)

\* C33: a scroll-wheel event inside the list changes the offset by at most
\* one row, keeps it at or above 0, does not scroll down once the rows from
\* the offset on fit in the viewport, and leaves the current index and the
\* rows as they were.
C33_WheelMovesOffsetByOne ==
    last.op \in {"MouseScrollUp", "MouseScrollDown"}
        => /\ Completed
           /\ offset \in {last.what.offset - 1, last.what.offset,
                          last.what.offset + 1}
           /\ offset >= 0
           /\ (last.op = "MouseScrollDown" /\ LinesBelow <= rectHeight)
                 => offset = last.what.offset
           /\ currentItem = last.cur
           /\ Len(items) = last.len
           /\ events = <<>>

\* One line of viewport, two rows: the wheel has scrolled the current row
\* out of view and left it current.
C33_Witness ==
    /\ last.op = "MouseScrollDown"
    /\ rectHeight = 1
    /\ Len(items) = 2
    /\ last.what.offset = 0
    /\ offset = 1
    /\ last.cur = 0 /\ currentItem = 0

\* The row under the pointer of the last mouse event, -1 if there is none:
\* the pointer is inside the list, on a line of the viewport, and a row is
\* drawn on that line.
RowUnderPointer ==
    LET pos == last.what.arg
        row == GoDiv(pos.dy, IF showSecondaryText THEN 2 ELSE 1)
               + last.what.offset
    IN  IF pos.inRect /\ pos.inInner /\ 0 <= pos.dy /\ pos.dy < rectHeight
           /\ row < Len(items)
        THEN row ELSE -1

C35_StateAccessedUnderLock ==
    \A i \in DOMAIN events : events[i].cb = "access" => events[i].mu = "held"

\* C38: in the older List of the source, every path of the mouse handler
\* releases the list's lock only when it holds it and does not hold it when
\* it returns, a right click with at least one context menu option included.
C38_OlderHandlerBalancesLock ==
    last.op \in MouseActions => (status # "fatal" /\ mu = "free")

\* No callback from the i-th on went on to change the rows, so the rows of
\* the state are the rows the i-th callback found.
RowsAsFoundBy(i) == \A j \in i..Len(events) : events[j].does # "remove"

\* C36: whenever the list-wide selected callback is invoked, its index
\* argument and its text arguments describe the same row of the list as it
\* is at that moment, even when the row's own callback, which runs first
\* with the lock released, removed rows.
C36_SelectedArgumentsAgree ==
    \A i \in DOMAIN events :
        (events[i].cb = "selected" /\ RowsAsFoundBy(i))
            => /\ InRange(items, events[i].index)
               /\ At(items, events[i].index).MainText = events[i].main
               /\ At(items, events[i].index).SecondaryText = events[i].secondary

\* C37: when at least one enabled row exists, the First command leaves the
\* current index on the lowest-index enabled row and the Last command on the
\* highest-index enabled row, with wrap-around on or off.
C37_FirstAndLastFindEnabledRow ==
    (last.op = "Transform" /\ EnabledRows # {})
        => /\ last.what = "TransformFirstItem"
                => (currentItem \in EnabledRows
                    /\ \A i \in EnabledRows : currentItem <= i)
           /\ last.what = "TransformLastItem"
                => (currentItem \in EnabledRows
                    /\ \A i \in EnabledRows : currentItem >= i)

\* What the older transform makes of the list the last Transform found.
Older == OlderTransform(Found, last.what)

\* C39: for every list, current index, wrap-around setting and navigation
\* command, the newer and the older transform of the source leave the same
\* current index (and the same rows); only the offset may differ.
C39_VariantsAgreeOnIndex ==
    last.op = "Transform"
        => /\ Older.currentItem = currentItem
           /\ Older.items = items
           /\ Older.status = status

\* A page back from row 1 of six with wrap-around, past a disabled last
\* row, onto row 4, by the newer transform and by the older one.
C39_Witness ==
    /\ last.op = "Transform"
    /\ last.what = "TransformPreviousPage"
    /\ wrapAround
    /\ Len(items) = 6
    /\ last.cur = 1
    /\ ~At(items, 5).Enabled /\ At(items, 4).Enabled
    /\ currentItem = 4
    /\ Older.currentItem = 4

\* C40: the offset recomputation is idempotent: with the rows, the current
\* index, the viewport height and the display policies as they are, applying
\* it again leaves the offset it has just computed, for every height of at
\* least 1 and for one-line and two-line rows.
C40_UpdateOffsetIdempotent ==
    (/\ last.op = "Transform" \/ (last.op = "Draw" /\ PolicyActive)
     /\ rectHeight >= 1
     /\ InRange(items, currentItem))
        => updateOffset(Here(items)).offset = offset

====
